---- MODULE Spec2Model ----
(***************************************************************************)
(* Verification model of the seo-solver aws-typescript implementation:     *)
(* the validators (pure functions of what the network returns), the        *)
(* POST /validate handler with its GSC path, and the issue store handlers. *)
(***************************************************************************)
EXTENDS Integers, Sequences, FiniteSets, TLC

(***************************************************************************)
(* Bounds of the model                                                     *)
(***************************************************************************)
\* most application/ld+json script blocks of a page
MaxBlocks == 2

\* most issues of a Search Console rich-results item
MaxRichIssues == 2

\* the last day the clock is advanced to
MaxDays == 9

\* most requests in flight at once
MaxProcs == 2
MaxWaits == 1

\* longest redirect chain (number of redirect hops before the last URL)
MaxChain == 11

(***************************************************************************)
(* Issue shape (types/index.ts)                                            *)
(***************************************************************************)
\* the id '' that validators and the GSC mapper emit
NoId == 0

NoDetails == [message |-> TRUE]

Issue(cat, type, sev, fix, details) ==
  [id |-> NoId, category |-> cat, type |-> type, severity |-> sev,
   auto_fixable |-> fix, details |-> details]

\* allIssues.filter(i => i.field === value).length
CountField(s, field, value) == Cardinality({k \in 1..Len(s) : s[k][field] = value})

CountType(s, t) == CountField(s, "type", t)

TypesOf(s) == {s[k].type : k \in 1..Len(s)}

(***************************************************************************)
(* Indexing validator (validators/indexing.ts)                             *)
(*                                                                         *)
(* The web seen from the inspected URL is a walk in a functional graph:    *)
(* URL 0 is the inspected URL, URL i < n answers 3xx with Location         *)
(* URL i+1, and URL n answers as w.end says: a final status code, a 3xx    *)
(* without Location header, a network error, or a 3xx back to URL          *)
(* w.loopTo (a loop).                                                      *)
(***************************************************************************)
\* the first Location header as a raw relative string ("/b"): not a URL
RelativeRef == -2
\* the inspected URL as typed by the caller, when it differs from its
\* normalised href ("https://example.com" vs "https://example.com/")
RawUrl == -1

StatusCodes == {200, 403, 404, 500, 503}
EndKinds == {"status", "noloc", "fail", "loop"}
CanonicalKinds == {"none", "same", "other"}
RobotsKinds == {"fail", "notok", "blocks", "allows"}

\* what the fetch of /robots.txt gives: it rejects ("fail"), answers with a
\* status that is not ok ("notok"), or answers with a text ("ok"), here its
\* lines and whether the last line ends with a newline
RobotsTxt(fetch, lines, endsWithNewline) ==
  [fetch |-> fetch, lines |-> lines, endsWithNewline |-> endsWithNewline]

RobotsFile(kind) ==
  CASE kind = "fail" -> RobotsTxt("fail", <<>>, FALSE)
    [] kind = "notok" -> RobotsTxt("notok", <<>>, FALSE)
    [] kind = "blocks" -> RobotsTxt("ok", <<"User-agent: *", "Disallow: /">>, TRUE)
    [] kind = "allows" -> RobotsTxt("ok", <<"User-agent: *", "Allow: /">>, TRUE)

RobotsWebs == {RobotsFile(kind) : kind \in RobotsKinds}

IdxWorlds ==
  { w \in [n : 0..MaxChain, firstRel : BOOLEAN, rawIsHref : BOOLEAN,
           end : EndKinds, code : StatusCodes, loopTo : 0..MaxChain,
           canonical : CanonicalKinds, metaNoindex : BOOLEAN,
           headerNoindex : BOOLEAN, isRoot : BOOLEAN, robots : RobotsWebs] :
      /\ w.loopTo <= w.n
      /\ (w.end # "loop" => w.loopTo = 0)
      /\ (w.end # "status" => w.code = 200)
      /\ (w.end # "status" =>
            /\ w.canonical = "same" /\ ~w.metaNoindex /\ ~w.headerNoindex
            /\ w.robots = RobotsFile("allows") /\ ~w.isRoot)
      /\ (~w.isRoot => w.robots = RobotsFile("allows"))
      /\ (w.n = 0 /\ w.end # "loop" => ~w.firstRel) }

\* fetch(u, {redirect: 'manual'}): the response of URL u itself
FetchManual(w, u) ==
  IF u = RelativeRef THEN [kind |-> "throw"]
  ELSE LET v == IF u = RawUrl THEN 0 ELSE u IN
    IF v < w.n THEN [kind |-> "redirect", location |-> v + 1,
                     relative |-> (v = 0 /\ w.firstRel)]
    ELSE CASE w.end = "status" -> [kind |-> "status", status |-> w.code]
           [] w.end = "noloc"  -> [kind |-> "status", status |-> 301]
           [] w.end = "fail"   -> [kind |-> "throw"]
           [] w.end = "loop"   -> [kind |-> "redirect", location |-> w.loopTo,
                                   relative |-> (v = 0 /\ w.firstRel)]

\* fetch(url) with the default redirect: 'follow': the response at the end of
\* the chain; a chain that never ends exceeds fetch's redirect limit and the
\* call rejects (every chain of the model that ends is shorter than the limit)
FetchFollow(w) ==
  CASE w.end = "status" -> [kind |-> "status", status |-> w.code]
    [] w.end = "noloc"  -> [kind |-> "status", status |-> 301]
    [] w.end = "fail"   -> [kind |-> "throw"]
    [] w.end = "loop"   -> [kind |-> "throw"]

maxHops == 10

RedirectLoopIssue(cur, hops) ==
  Issue("indexing", "redirect_loop", "error", TRUE,
        [loop_url |-> cur, hops |-> hops])

RedirectChainIssue(hops) ==
  Issue("indexing", "redirect_chain", "warning", TRUE, [hops |-> hops])

RECURSIVE ChainWalk(_, _, _, _)
\* the while loop of checkRedirectChain; the result is a sequence of at most
\* one issue (<<>> for null)
ChainWalk(w, currentUrl, hops, visited) ==
  IF ~(hops < maxHops)
  THEN IF hops > 1 THEN <<RedirectChainIssue(hops)>> ELSE <<>>
  ELSE IF currentUrl \in visited
  THEN <<RedirectLoopIssue(currentUrl, hops)>>
  ELSE LET response == FetchManual(w, currentUrl) IN
    IF response.kind = "redirect"
    THEN ChainWalk(w, response.location, hops + 1, visited \cup {currentUrl})
    ELSE IF hops > 1 THEN <<RedirectChainIssue(hops)>> ELSE <<>>

\* checkRedirectChain(originalUrl, firstRedirect, now): firstRedirect is the
\* raw Location header value, every later hop is resolved with new URL(...)
checkRedirectChain(w, firstRedirect) ==
  ChainWalk(w, firstRedirect, 1, {IF w.rawIsHref THEN 0 ELSE RawUrl})

checkCanonical(w) ==
  CASE w.canonical = "none" ->
         <<Issue("indexing", "duplicate_without_canonical", "error", TRUE, NoDetails)>>
    [] w.canonical = "other" ->
         <<Issue("indexing", "conflicting_canonical", "error", TRUE, NoDetails)>>
    [] OTHER -> <<>>

checkNoindex(w) ==
  IF w.metaNoindex \/ w.headerNoindex
  THEN <<Issue("indexing", "noindex_tag", "warning", FALSE, NoDetails)>>
  ELSE <<>>

\* the agent a User-agent line names, trimmed and in lower case; "" for a
\* line that is no User-agent line
AgentOf(line) ==
  CASE line = "User-agent: *" -> "*"
    [] line = "User-agent: Googlebot" -> "googlebot"
    [] line = "User-agent: bingbot" -> "bingbot"
    [] OTHER -> ""

\* line.trim().toLowerCase() === 'disallow: /'
IsDisallowAll(line) == line \in {"Disallow: /", "disallow: /"}

\* robotsTxt.includes('Disallow: /\n') || robotsTxt.includes('Disallow: /\r')
IncludesDisallowAll(robots) ==
  \E i \in 1..Len(robots.lines) :
    /\ robots.lines[i] = "Disallow: /"
    /\ i < Len(robots.lines) \/ robots.endsWithNewline

\* the loop over the lines: TRUE when it returns the issue
RECURSIVE AgentIsBlocked(_, _)
AgentIsBlocked(lines, currentAgent) ==
  IF lines = <<>> THEN FALSE
  ELSE IF AgentOf(Head(lines)) # "" THEN AgentIsBlocked(Tail(lines), AgentOf(Head(lines)))
  ELSE IF IsDisallowAll(Head(lines)) /\ currentAgent \in {"*", "googlebot"} THEN TRUE
  ELSE AgentIsBlocked(Tail(lines), currentAgent)

checkRobotsTxt(w) ==
  IF /\ w.robots.fetch = "ok"
     /\ IncludesDisallowAll(w.robots)
     /\ AgentIsBlocked(w.robots.lines, "")
  THEN <<Issue("indexing", "blocked_by_robots", "error", TRUE, NoDetails)>>
  ELSE <<>>

\* what a run of the validator did: the issues it returns, the content
\* checks it performed, whether robots.txt was requested, and the status of
\* the response handed to validateFinalResponse (0: none)
IdxResult(issues, checks, robotsFetched, finalStatus) ==
  [issues |-> issues, checks |-> checks, robotsFetched |-> robotsFetched,
   finalStatus |-> finalStatus]

validateFinalResponseNoShortCircuit(w, response, existingIssues) ==
  LET st == response.status
      head == IF st = 404
              THEN existingIssues \o <<Issue("indexing", "not_found_404", "error", FALSE,
                                             [status_code |-> 404])>>
              ELSE existingIssues
  IN IdxResult(head \o checkCanonical(w) \o checkNoindex(w)
                    \o (IF w.isRoot THEN checkRobotsTxt(w) ELSE <<>>),
               {"canonical", "noindex"} \cup (IF w.isRoot THEN {"robots"} ELSE {}),
               w.isRoot, st)

validateFinalResponse(w, response, existingIssues) ==
  LET st == response.status IN
  IF st = 404
  THEN IdxResult(existingIssues \o <<Issue("indexing", "not_found_404", "error", FALSE,
                                           [status_code |-> 404])>>, {}, FALSE, st)
  ELSE IF st >= 500
  THEN IdxResult(existingIssues \o <<Issue("indexing", "server_error_5xx", "error", FALSE,
                                           [status_code |-> st])>>, {}, FALSE, st)
  ELSE IF ~(st >= 200 /\ st <= 299)
  THEN IdxResult(existingIssues, {}, FALSE, st)
  ELSE IdxResult(existingIssues \o checkCanonical(w) \o checkNoindex(w)
                    \o (IF w.isRoot THEN checkRobotsTxt(w) ELSE <<>>),
                 {"canonical", "noindex"} \cup (IF w.isRoot THEN {"robots"} ELSE {}),
                 w.isRoot, st)

\* the catch block of validateIndexing: { issues: [], urls_checked: 1 }
IdxCaught == IdxResult(<<>>, {}, FALSE, 0)

validateIndexing(w) ==
  LET response == FetchManual(w, IF w.rawIsHref THEN 0 ELSE RawUrl) IN
  IF response.kind = "throw" THEN IdxCaught
  ELSE IF response.kind = "redirect" \/ (response.status >= 300 /\ response.status < 400)
  THEN LET issues == IF response.kind = "redirect"
                     THEN checkRedirectChain(w, IF response.relative THEN RelativeRef
                                                ELSE response.location)
                     ELSE <<>>
           finalResponse == FetchFollow(w)
       IN IF finalResponse.kind = "throw" THEN IdxCaught
          ELSE validateFinalResponse(w, finalResponse, issues)
  ELSE validateFinalResponse(w, response, <<>>)

(***************************************************************************)
(* Structured data validator (validators/structured-data.ts)               *)
(*                                                                         *)
(* A page is what fetch returns ("throw": network error, "notok": HTTP     *)
(* error) and the application/ld+json script blocks of its HTML; a JSON-LD *)
(* object is given by what validateSchema reads of it.                     *)
(***************************************************************************)
FetchKinds == {"throw", "notok", "ok"}

REQUIRED_FIELDS(schemaType) ==
  CASE schemaType = "VideoObject" -> <<"name", "thumbnailUrl", "uploadDate">>
    [] schemaType = "Product" -> <<"name", "image">>
    [] schemaType = "Article" -> <<"headline", "image", "datePublished", "author">>
    [] schemaType = "FAQPage" -> <<"mainEntity">>
    [] schemaType = "BreadcrumbList" -> <<"itemListElement">>
    [] schemaType = "Organization" -> <<"name", "url">>
    [] schemaType = "LocalBusiness" -> <<"name", "address">>
    [] OTHER -> <<>>

RECOMMENDED_FIELDS(schemaType) ==
  CASE schemaType = "VideoObject" -> <<"description", "duration", "contentUrl", "embedUrl">>
    [] schemaType = "Product" ->
         <<"description", "brand", "sku", "review", "aggregateRating", "offers">>
    [] schemaType = "Article" -> <<"description", "dateModified", "publisher">>
    [] OTHER -> <<>>

\* A JSON-LD object is given by its @type ("Unknown" without one,
\* "__PARSE_ERROR__" for a block that does not parse), the value of each
\* field it has ("null", "empty" for '', "value" for anything else), those
\* of its date fields that are strings in a wrong format and those of its
\* URL fields that start with '/'.  JsonLd builds an object whose fields
\* all have a value.
FieldValues == {"null", "empty", "value"}
JsonLd(type, fields, badDates, relativeUrls) ==
  [type |-> type, fields |-> [f \in fields |-> "value"], badDates |-> badDates,
   relativeUrls |-> relativeUrls]

\* obj[field] !== undefined && obj[field] !== null && obj[field] !== ''
hasFieldAcceptsEmpty(jsonLd, field) ==
  /\ field \in DOMAIN jsonLd.fields
  /\ jsonLd.fields[field] # "null"
hasField(jsonLd, field) ==
  /\ field \in DOMAIN jsonLd.fields
  /\ jsonLd.fields[field] # "null"
  /\ jsonLd.fields[field] # "empty"

\* one issue for each field of the list that the object lacks
MissingFieldIssues(jsonLd, fieldList, type, severity) ==
  LET missing == SelectSeq(fieldList, LAMBDA f : ~hasField(jsonLd, f)) IN
  [k \in 1..Len(missing) |->
     Issue("structured_data", type, severity, TRUE,
           [schema_type |-> jsonLd.type, field |-> missing[k]])]

\* one issue for each field of the list that the object has with a bad value
InvalidValueIssues(jsonLd, fieldList, bad, expected) ==
  LET invalid == SelectSeq(fieldList, LAMBDA f : hasField(jsonLd, f) /\ f \in bad) IN
  [k \in 1..Len(invalid) |->
     Issue("structured_data", "invalid_field_value", "error", TRUE,
           [schema_type |-> jsonLd.type, field |-> invalid[k], expected |-> expected])]

validateSchema(jsonLd) ==
  IF jsonLd.type = "__PARSE_ERROR__"
  THEN <<Issue("structured_data", "syntax_error", "error", TRUE, NoDetails)>>
  ELSE MissingFieldIssues(jsonLd, REQUIRED_FIELDS(jsonLd.type),
                          "missing_required_field", "error")
    \o MissingFieldIssues(jsonLd, RECOMMENDED_FIELDS(jsonLd.type),
                          "missing_recommended_field", "warning")
    \o InvalidValueIssues(jsonLd, <<"datePublished", "dateModified", "uploadDate">>,
                          jsonLd.badDates, "ISO 8601 format")
    \o InvalidValueIssues(jsonLd, <<"url", "image", "thumbnailUrl", "contentUrl">>,
                          jsonLd.relativeUrls, "Absolute URL")

RECURSIVE validateSchemas(_)
\* for (const jsonLd of jsonLdScripts) issues.push(...validateSchema(jsonLd))
validateSchemas(blocks) ==
  IF blocks = <<>> THEN <<>>
  ELSE validateSchema(Head(blocks)) \o validateSchemas(Tail(blocks))

\* What JSON.parse makes of the text of a script block: "invalid" when it
\* throws, "null" for the literal null (reading its @graph throws), "object"
\* for one object, "array" for an array literal and "graph" for an object
\* with an @graph array; items are the objects the block holds.
ParseKinds == {"invalid", "null", "object", "array", "graph"}
ScriptBlock(parse, items) == [parse |-> parse, items |-> items]
ObjectBlock(jsonLd) == ScriptBlock("object", <<jsonLd>>)
ParseError == JsonLd("__PARSE_ERROR__", {}, {}, {})

RECURSIVE extractJsonLdDropsInvalid(_)
RECURSIVE extractJsonLd(_)
extractJsonLdDropsInvalid(scripts) ==
  IF scripts = <<>> THEN <<>>
  ELSE LET block == Head(scripts) IN
       (IF block.parse \in {"invalid", "null"} THEN <<>>
        ELSE block.items)
       \o extractJsonLdDropsInvalid(Tail(scripts))
extractJsonLd(scripts) ==
  IF scripts = <<>> THEN <<>>
  ELSE LET block == Head(scripts) IN
       (IF block.parse \in {"invalid", "null"} THEN <<ParseError>>
        ELSE block.items)
       \o extractJsonLd(Tail(scripts))

validateStructuredData(page) ==
  IF page.fetch # "ok" THEN <<>>
  ELSE LET jsonLdScripts == extractJsonLd(page.blocks) IN
       IF Len(jsonLdScripts) = 0
       THEN <<Issue("structured_data", "missing_schema", "error", FALSE, NoDetails)>>
       ELSE validateSchemas(jsonLdScripts)

(***************************************************************************)
(* Performance validator (validators/performance.ts); LCP in ms as the     *)
(* PageSpeed API reports it, CLS in thousandths; -1 is an absent audit     *)
(***************************************************************************)
LcpGood == 2500
LcpNeedsImprovement == 4000
InpGood == 200
InpNeedsImprovement == 500
ClsGood == 100
ClsNeedsImprovement == 250
NoAudit == -1

\* if (audit?.numericValue): an absent audit and the value 0 give no metric
Truthy(v) == v # NoAudit /\ v # 0

MetricIssueFromGood(name, value, good, bad) ==
  IF value > bad
  THEN <<Issue("performance", "poor_" \o name, "error", FALSE,
               [threshold |-> bad, value |-> value])>>
  ELSE IF value >= good
  THEN <<Issue("performance", "needs_improvement_" \o name, "warning", FALSE,
               [threshold |-> good, value |-> value])>>
  ELSE <<>>
MetricIssue(name, value, good, bad) ==
  IF value > bad
  THEN <<Issue("performance", "poor_" \o name, "error", FALSE,
               [threshold |-> bad, value |-> value])>>
  ELSE IF value > good
  THEN <<Issue("performance", "needs_improvement_" \o name, "warning", FALSE,
               [threshold |-> good, value |-> value])>>
  ELSE <<>>

validatePerformance(pw) ==
  IF ~pw.apiKey THEN <<>>
  ELSE IF pw.fetch # "ok" THEN <<>>
  ELSE (IF Truthy(pw.lcp)
          THEN MetricIssue("lcp", pw.lcp, LcpGood, LcpNeedsImprovement) ELSE <<>>)
    \o (IF Truthy(pw.inp)
          THEN MetricIssue("inp", pw.inp, InpGood, InpNeedsImprovement) ELSE <<>>)
    \o (IF pw.cls # NoAudit
          THEN MetricIssue("cls", pw.cls, ClsGood, ClsNeedsImprovement) ELSE <<>>)

(***************************************************************************)
(* Mobile validator (validators/mobile.ts)                                 *)
(***************************************************************************)
\* the viewport meta tag: absent, without content attribute, content without
\* width=, content with user-scalable=no, or fine
ViewportKinds == {"none", "nocontent", "nowidth", "noscale", "ok"}

checkViewportNeedsTag(mw) ==
  CASE mw.viewport = "nowidth" ->
         <<Issue("mobile", "no_viewport", "error", TRUE, [current_content |-> TRUE])>>
    [] mw.viewport = "noscale" ->
         <<Issue("mobile", "content_wider_than_screen", "warning", TRUE,
                 [current_content |-> TRUE])>>
    [] OTHER -> <<>>
checkViewport(mw) ==
  CASE mw.viewport = "none" ->
         <<Issue("mobile", "no_viewport", "error", TRUE, NoDetails)>>
    [] mw.viewport = "nowidth" ->
         <<Issue("mobile", "no_viewport", "error", TRUE, [current_content |-> TRUE])>>
    [] mw.viewport = "noscale" ->
         <<Issue("mobile", "content_wider_than_screen", "warning", TRUE,
                 [current_content |-> TRUE])>>
    [] OTHER -> <<>>

\* the three pattern scans, each reporting once (break)
Min(a, b) == IF a < b THEN a ELSE b
Max(a, b) == IF a < b THEN b ELSE a

\* a style attribute is the px values of its width/height declarations in
\* the order written. smallTargetPattern matches an attribute with two of
\* them; its first [^"']* is greedy, so the groups are the last two
TapDims(style) == <<style[Len(style) - 1], style[Len(style)]>>

\* minDim < 44 && minDim > 0
TapTargetBothSmall(style) ==
  /\ Len(style) >= 2
  /\ Max(TapDims(style)[1], TapDims(style)[2]) < 44
  /\ Min(TapDims(style)[1], TapDims(style)[2]) > 0
TapTargetTooSmall(style) ==
  /\ Len(style) >= 2
  /\ Min(TapDims(style)[1], TapDims(style)[2]) < 44
  /\ Min(TapDims(style)[1], TapDims(style)[2]) > 0

checkMobilePatterns(mw) ==
     (IF mw.wide THEN <<Issue("mobile", "content_wider_than_screen", "warning", FALSE,
                              [width |-> TRUE])>> ELSE <<>>)
  \o (IF mw.smallFont THEN <<Issue("mobile", "text_too_small", "warning", FALSE,
                                    [font_size |-> TRUE])>> ELSE <<>>)
  \o (IF \E k \in 1..Len(mw.styles) : TapTargetTooSmall(mw.styles[k])
      THEN <<Issue("mobile", "tap_targets_too_close", "warning", FALSE,
                                   [size |-> TRUE])>> ELSE <<>>)

validateMobile(mw) ==
  IF mw.fetch # "ok" THEN <<>>
  ELSE checkViewport(mw) \o checkMobilePatterns(mw)

(***************************************************************************)
(* Search Console issue mapper (gsc/issues-mapper.ts)                      *)
(*                                                                         *)
(* An inspection result has up to three parts.  coverageState is given by  *)
(* the set of keywords its lower-cased text contains; a canonical is "none"*)
(* or a URL name; detectedItems/items are flattened to their issue list.   *)
(***************************************************************************)
Verdicts == {"PASS", "PARTIAL", "FAIL", "NEUTRAL"}
CoverageKeywords == {"noindex", "blocked", "not found", "server error", "redirect"}
GscDetails == [source |-> "gsc"]
NoPart == [present |-> FALSE]

\* createIssue: id '', auto_fixable false
createIssue(cat, type, sev) == Issue(cat, type, sev, FALSE, GscDetails)

\* the coverage part (types.ts 132-229), entered only with verdict FAIL
mapCoverageIssuesAnyVerdict(indexStatus) ==
  IF indexStatus.verdict = "FAIL" \/ indexStatus.coverage # {}
  THEN <<createIssue("indexing",
           CASE "noindex" \in indexStatus.coverage -> "noindex_tag"
             [] "blocked" \in indexStatus.coverage -> "blocked_by_robots"
             [] "not found" \in indexStatus.coverage -> "not_found_404"
             [] "server error" \in indexStatus.coverage -> "server_error_5xx"
             [] "redirect" \in indexStatus.coverage -> "redirect_chain"
             [] OTHER -> "crawled_not_indexed",
           IF indexStatus.coverage \cap {"noindex", "blocked", "not found",
                                         "server error"} = {}
              /\ "redirect" \in indexStatus.coverage
           THEN "warning" ELSE "error")>>
  ELSE <<>>
mapCoverageIssues(indexStatus) ==
  IF indexStatus.verdict = "FAIL"
  THEN <<createIssue("indexing",
           CASE "noindex" \in indexStatus.coverage -> "noindex_tag"
             [] "blocked" \in indexStatus.coverage -> "blocked_by_robots"
             [] "not found" \in indexStatus.coverage -> "not_found_404"
             [] "server error" \in indexStatus.coverage -> "server_error_5xx"
             [] "redirect" \in indexStatus.coverage -> "redirect_chain"
             [] OTHER -> "crawled_not_indexed",
           IF indexStatus.coverage \cap {"noindex", "blocked", "not found",
                                         "server error"} = {}
              /\ "redirect" \in indexStatus.coverage
           THEN "warning" ELSE "error")>>
  ELSE <<>>

\* the canonical part (types.ts 231-266)
mapCanonicalIssuesAlsoOnPass(indexStatus) ==
  IF indexStatus.googleCanonical # "none" /\ indexStatus.userCanonical # "none"
  THEN (IF indexStatus.googleCanonical # indexStatus.userCanonical
          THEN <<createIssue("indexing", "conflicting_canonical", "warning")>>
          ELSE <<>>)
  ELSE IF indexStatus.userCanonical = "none"
  THEN <<createIssue("indexing", "duplicate_without_canonical", "warning")>>
  ELSE <<>>
mapCanonicalIssues(indexStatus) ==
  IF indexStatus.googleCanonical # "none" /\ indexStatus.userCanonical # "none"
  THEN (IF indexStatus.googleCanonical # indexStatus.userCanonical
          THEN <<createIssue("indexing", "conflicting_canonical", "warning")>>
          ELSE <<>>)
  ELSE IF indexStatus.userCanonical = "none" /\ indexStatus.verdict # "PASS"
  THEN <<createIssue("indexing", "duplicate_without_canonical", "warning")>>
  ELSE <<>>

mapIndexStatusIssues(indexStatus) ==
  mapCoverageIssues(indexStatus) \o mapCanonicalIssues(indexStatus)

MobileIssueTypes == {"VIEWPORT_NOT_CONFIGURED", "CONTENT_NOT_SIZED_TO_VIEWPORT",
                     "USE_READABLE_FONT_SIZES", "TAP_TARGETS_TOO_CLOSE", "UNLISTED"}

mapMobileIssueType(gscIssueType) ==
  CASE gscIssueType = "VIEWPORT_NOT_CONFIGURED" -> "no_viewport"
    [] gscIssueType = "CONTENT_NOT_SIZED_TO_VIEWPORT" -> "content_wider_than_screen"
    [] gscIssueType = "USE_READABLE_FONT_SIZES" -> "text_too_small"
    [] gscIssueType = "TAP_TARGETS_TOO_CLOSE" -> "tap_targets_too_close"
    [] OTHER -> "no_viewport"

GscSeverity(severity) == IF severity = "ERROR" THEN "error" ELSE "warning"

mapMobileUsabilityIssues(mobileUsability) ==
  IF mobileUsability.verdict # "PASS"
  THEN [k \in 1..Len(mobileUsability.issues) |->
          createIssue("mobile", mapMobileIssueType(mobileUsability.issues[k].issueType),
                      GscSeverity(mobileUsability.issues[k].severity))]
  ELSE <<>>

RichIssueTypeByMessage(issue) ==
  IF issue.invalid THEN "invalid_field_value"
  ELSE IF ~issue.missing THEN "missing_recommended_field"
  ELSE "missing_required_field"
RichIssueType(issue) ==
  IF issue.invalid THEN "invalid_field_value"
  ELSE IF ~issue.missing /\ issue.severity = "WARNING" THEN "missing_recommended_field"
  ELSE "missing_required_field"

mapRichResultsIssues(richResults) ==
  IF richResults.verdict # "PASS"
  THEN [k \in 1..Len(richResults.issues) |->
          createIssue("structured_data", RichIssueType(richResults.issues[k]),
                      GscSeverity(richResults.issues[k].severity))]
  ELSE <<>>

mapInspectionResultToIssues(result) ==
     (IF result.index.present THEN mapIndexStatusIssues(result.index) ELSE <<>>)
  \o (IF result.mobile.present THEN mapMobileUsabilityIssues(result.mobile) ELSE <<>>)
  \o (IF result.rich.present THEN mapRichResultsIssues(result.rich) ELSE <<>>)

(***************************************************************************)
(* Issue store (db/dynamodb.ts).  The issues table is a set of records     *)
(* with primary key (site_id, issue_id).                                   *)
(***************************************************************************)
Sites == {"a.com", "b.com"}

\* number of distinct values generateIssueId can draw
MaxId == 2
IssueIds == 1..MaxId

IssueCategory == {"structured_data", "indexing", "performance", "mobile"}
IssueSeverity == {"error", "warning"}
IssueStatus == {"open", "fixing", "fixed", "wontfix"}
VALID_STATUSES == IssueStatus
NoTime == -1
NoRecord == [issue_id |-> NoId]

\* { ...issue, site_id, issue_id: issue.id, status: issue.status || 'open' };
\* no validator or mapper sets a status
issueToRecord(issue, siteId) ==
  [id |-> issue.id, category |-> issue.category, type |-> issue.type,
   severity |-> issue.severity, auto_fixable |-> issue.auto_fixable,
   details |-> issue.details, site_id |-> siteId, issue_id |-> issue.id,
   status |-> "open", updated_at |-> NoTime]

SameKey(r, q) == r.site_id = q.site_id /\ r.issue_id = q.issue_id

\* PutCommand: the item replaces whatever is stored under its key
putIssue(table, rec) == {r \in table : ~SameKey(r, rec)} \cup {rec}

RECURSIVE putIssues(_, _)
\* for (const issue of issues) await putIssue(issue)
putIssues(table, recs) ==
  IF recs = <<>> THEN table
  ELSE putIssues(putIssue(table, Head(recs)), Tail(recs))

\* UpdateCommand SET status, updated_at on the item with this key
updateIssueStatus(table, siteId, issueId, status, at) ==
  {IF r.site_id = siteId /\ r.issue_id = issueId
     THEN [r EXCEPT !.status = status, !.updated_at = at] ELSE r : r \in table}

\* A Scan reads the partitions in the table's (fixed, unspecified) hash order
\* and each partition by ascending sort key; with Limit: 1 it evaluates one
\* item, the first, and applies the FilterExpression to that item only.
ScanFirst(table, order) ==
  LET k == CHOOSE i \in 1..Len(order) :
             /\ \E r \in table : r.site_id = order[i]
             /\ \A j \in 1..(i - 1) : \A r \in table : r.site_id # order[j]
      part == {r \in table : r.site_id = order[k]}
  IN CHOOSE r \in part : \A q \in part : r.issue_id <= q.issue_id

findIssueById(table, order, issueId) ==
  IF table = {} THEN NoRecord
  ELSE IF ScanFirst(table, order).issue_id = issueId THEN ScanFirst(table, order)
  ELSE NoRecord

DefaultLimit == 100
MaxLimit == 500

QueryPagesAnyStatus(table, siteId, status, limit) ==
  LET match == {r \in table : r.site_id = siteId}
      n == IF Cardinality(match) < limit THEN Cardinality(match) ELSE limit
  IN {P \in SUBSET match :
        /\ Cardinality(P) = n
        /\ (status = "none" => \A r \in P : \A q \in match \ P : r.issue_id < q.issue_id)}
\* The items a Query evaluates: those matching the key condition, at most
\* Limit of them.  The base table is read by ascending issue_id; the order of
\* StatusIndex entries with equal key is not specified, and the index is
\* read as up to date with the table.
QueryPages(table, siteId, status, limit) ==
  LET match == {r \in table : r.site_id = siteId /\ (status # "none" => r.status = status)}
      n == IF Cardinality(match) < limit THEN Cardinality(match) ELSE limit
  IN {P \in SUBSET match :
        /\ Cardinality(P) = n
        /\ (status = "none" => \A r \in P : \A q \in match \ P : r.issue_id < q.issue_id)}

\* FilterExpression on category, applied to the evaluated items
FilterPage(page, category) ==
  {r \in page : category # "none" => r.category = category}

(***************************************************************************)
(* Google tokens (gsc/oauth.ts, gsc/client.ts); time in minutes            *)
(***************************************************************************)
NoToken == [site_id |-> "none"]
ExpiryBuffer == 5

\* Date.now() > expiry - bufferMs
isTokenExpiredWithoutBuffer(expiresAt, at) == at > expiresAt
isTokenExpired(expiresAt, at) == at > expiresAt - ExpiryBuffer

\* a record as the OAuth callback stores it: created_at and updated_at are
\* the time of the callback
TokenRecord(site, access, refresh, expiresAt, updatedAt) ==
  [site_id |-> site, access_token |-> access, refresh_token |-> refresh,
   expires_at |-> expiresAt, scope |-> "webmasters.readonly",
   created_at |-> updatedAt, updated_at |-> updatedAt]

\* what Google answers to a refresh: an error, or a new access token with its
\* lifetime
RefreshAnswers ==
  {[ok |-> FALSE, access_token |-> "none", expires_in |-> 0],
   [ok |-> TRUE, access_token |-> "at2", expires_in |-> 60]}

\* the access token returned ("none" for null) and the token table afterwards
getValidAccessTokenNewRecord(toks, siteId, at, refresh) ==
  LET tokenRecord == toks[siteId] IN
  IF tokenRecord = NoToken THEN [token |-> "none", tokens |-> toks]
  ELSE IF isTokenExpired(tokenRecord.expires_at, at)
  THEN IF tokenRecord.refresh_token = "none" THEN [token |-> "none", tokens |-> toks]
       ELSE IF refresh.ok
       THEN [token |-> refresh.access_token,
             tokens |-> [toks EXCEPT ![siteId] =
                           [tokenRecord EXCEPT !.access_token = refresh.access_token,
                                               !.expires_at = at + refresh.expires_in,
                                               !.created_at = at,
                                               !.updated_at = at]]]
       ELSE [token |-> "none", tokens |-> toks]
  ELSE [token |-> tokenRecord.access_token, tokens |-> toks]
getValidAccessToken(toks, siteId, at, refresh) ==
  LET tokenRecord == toks[siteId] IN
  IF tokenRecord = NoToken THEN [token |-> "none", tokens |-> toks]
  ELSE IF isTokenExpired(tokenRecord.expires_at, at)
  THEN IF tokenRecord.refresh_token = "none" THEN [token |-> "none", tokens |-> toks]
       ELSE IF refresh.ok
       THEN [token |-> refresh.access_token,
             tokens |-> [toks EXCEPT ![siteId] =
                           [tokenRecord EXCEPT !.access_token = refresh.access_token,
                                               !.expires_at = at + refresh.expires_in,
                                               !.updated_at = at]]]
       ELSE [token |-> "none", tokens |-> toks]
  ELSE [token |-> tokenRecord.access_token, tokens |-> toks]

\* what the URL Inspection call does: the fetch (or the reading of its body)
\* rejects, the response is not ok, the body has no inspectionResult, or it
\* has one
InspectKinds == {"throw", "notok", "noresult", "result"}

\* "throw" when the call rejects, "null" for null or a body without
\* inspectionResult, else "result"
inspectUrl(toks, siteId, at, gw) ==
  LET valid == getValidAccessToken(toks, siteId, at, gw.refresh) IN
  IF valid.token = "none" THEN [outcome |-> "null", tokens |-> valid.tokens]
  ELSE IF gw.inspect = "throw" THEN [outcome |-> "throw", tokens |-> valid.tokens]
  ELSE IF gw.inspect = "result" THEN [outcome |-> "result", tokens |-> valid.tokens]
  ELSE [outcome |-> "null", tokens |-> valid.tokens]

(***************************************************************************)
(* POST /validate (handlers/validate.ts)                                   *)
(***************************************************************************)
DEFAULT_CHECKS == IssueCategory
DEFAULT_MAX_URLS == 50
MAX_URLS_LIMIT == 500

\* site_url values a request may carry: none, one that new URL() rejects, one
\* with another protocol, and http(s) URLs of the two sites
SiteUrls == {"", "not a url", "ftp://a.com/", "https://a.com/",
             "https://www.a.com/", "http://b.com/"}
HttpUrl(u) == u \in {"https://a.com/", "https://www.a.com/", "http://b.com/"}

\* url.hostname.replace(/^www\./, '')
\* a URL text scheme://host/path, its host a sequence of labels; a text
\* without scheme is the text of a bare host name, which new URL rejects
Url(scheme, host, path) == [scheme |-> scheme, host |-> host, path |-> path]
HostName(host) == Url("", host, "")

SpecialSchemes == {"http", "https", "ftp"}

toLowerCase(label) ==
  CASE label = "WWW" -> "www"
    [] label = "A" -> "a"
    [] label = "COM" -> "com"
    [] OTHER -> label

\* new URL(text).hostname: the host without scheme, port and path; the URL
\* parser lowercases the host of a special scheme and keeps an opaque host
\* (any other scheme) as written
hostnameKeepsCase(url) == url.host
hostname(url) ==
  IF url.scheme \in SpecialSchemes
  THEN [i \in 1..Len(url.host) |-> toLowerCase(url.host[i])]
  ELSE url.host

\* replace(/^www\./, ''): one leading "www." goes, matched as written
withoutWww(host) ==
  IF Len(host) > 1 /\ host[1] = "www" THEN Tail(host) ELSE host

\* extractSiteId on the parts of the text: new URL throws without a scheme
\* and the catch returns the text itself
extractSiteIdParsed(url) ==
  IF url.scheme = "" THEN url ELSE HostName(withoutWww(hostname(url)))

\* the URL texts of the requests, and the text of a host name
ParsedText(siteUrl) ==
  CASE siteUrl = "https://a.com/" -> Url("https", <<"a", "com">>, "/")
    [] siteUrl = "https://www.a.com/" -> Url("https", <<"www", "a", "com">>, "/")
    [] siteUrl = "ftp://a.com/" -> Url("ftp", <<"a", "com">>, "/")
    [] siteUrl = "http://b.com/" -> Url("http", <<"b", "com">>, "/")

HostText(host) ==
  CASE host = <<"a", "com">> -> "a.com"
    [] host = <<"b", "com">> -> "b.com"

extractSiteId(siteUrl) ==
  IF siteUrl \in {"https://a.com/", "https://www.a.com/", "ftp://a.com/", "http://b.com/"}
  THEN HostText(extractSiteIdParsed(ParsedText(siteUrl)).host)
  ELSE siteUrl

\* the 400 the handler answers with, or "" when it accepts the request;
\* checks.names is the set of names in the checks array, if one is given
ValidationError(request) ==
  IF request.body = "none" THEN "Request body is required"
  ELSE IF request.body = "badjson" THEN "Invalid JSON in request body"
  ELSE IF request.site_url = "" THEN "site_url is required"
  ELSE IF ~HttpUrl(request.site_url) THEN "Invalid site_url format"
  ELSE IF request.checks.given /\ ~(request.checks.names \subseteq DEFAULT_CHECKS)
  THEN "Invalid check"
  ELSE ""

\* request.checks || DEFAULT_CHECKS
ChecksOf(request) ==
  IF request.checks.given THEN request.checks.names ELSE DEFAULT_CHECKS

\* urlsToValidate.slice(0, Math.min(request.max_urls || 50, 500)); max_urls 0
\* stands for an absent one
UrlsToValidate(request) ==
  LET wanted == IF request.max_urls = 0 THEN DEFAULT_MAX_URLS ELSE request.max_urls
      maxUrls == IF wanted < MAX_URLS_LIMIT THEN wanted ELSE MAX_URLS_LIMIT
  IN SubSeq(<<request.site_url>>, 1, IF maxUrls < 1 THEN maxUrls ELSE 1)

\* gscIssues filtered by checks.includes(issue.category)
FilterByChecksKeepsAll(gscIssues, checks) == gscIssues
FilterByChecks(gscIssues, checks) == SelectSeq(gscIssues, LAMBDA i : i.category \in checks)

\* the network calls that rejected, named by the check they were made for
LocalFailed(checks, w) ==
     (IF "structured_data" \in checks /\ w.sd.fetch = "throw" THEN {"structured_data"} ELSE {})
  \cup (IF "indexing" \in checks /\ w.idx.end = "fail" THEN {"indexing"} ELSE {})
  \cup (IF "performance" \in checks /\ w.perf.apiKey /\ w.perf.fetch = "throw"
          THEN {"performance"} ELSE {})
  \cup (IF "mobile" \in checks /\ w.mob.fetch = "throw" THEN {"mobile"} ELSE {})

GscCategories == {"structured_data", "indexing", "mobile"}

\* The body of the handler between the option parsing and the assignment of
\* identifiers: the raw issues in the order they are pushed, whether a call
\* threw up to the outer catch, the token table afterwards, and for the
\* properties the checks whose source ran and whose network call rejected.
ValidateRun(request, w, toks, at) ==
  LET checks == ChecksOf(request)
      siteId == extractSiteId(request.site_url)
      useGsc == IF request.use_gsc = "absent" THEN TRUE ELSE request.use_gsc = "true"
      tokenRecord == IF useGsc THEN toks[siteId] ELSE NoToken
      urls == UrlsToValidate(request)
      perfIssues == IF "performance" \in checks /\ Len(urls) > 0
                    THEN validatePerformance(w.perf) ELSE <<>>
      perfRan == IF "performance" \in checks /\ Len(urls) > 0 THEN {"performance"} ELSE {}
      perfFailed == perfRan \cap LocalFailed(checks, w)
  IN
  IF tokenRecord # NoToken /\ useGsc
  THEN IF Len(urls) = 0
       THEN [threw |-> FALSE, raw |-> <<>>, gscUsed |-> FALSE, urlsChecked |-> 0,
             tokens |-> toks, ran |-> {}, failed |-> {}]
       ELSE LET inspected == inspectUrl(toks, siteId, at, w.gsc) IN
            IF inspected.outcome = "throw"
            THEN [threw |-> TRUE, raw |-> <<>>, gscUsed |-> FALSE, urlsChecked |-> 0,
                  tokens |-> inspected.tokens, ran |-> {},
                  failed |-> GscCategories \cap checks]
            ELSE IF inspected.outcome = "result"
            THEN [threw |-> FALSE,
                  raw |-> FilterByChecks(mapInspectionResultToIssues(w.gsc.result), checks)
                            \o perfIssues,
                  gscUsed |-> TRUE, urlsChecked |-> 1, tokens |-> inspected.tokens,
                  ran |-> (GscCategories \cap checks) \cup perfRan,
                  failed |-> perfFailed]
            ELSE [threw |-> FALSE, raw |-> perfIssues, gscUsed |-> FALSE,
                  urlsChecked |-> 1, tokens |-> inspected.tokens,
                  ran |-> perfRan, failed |-> perfFailed]
  ELSE IF Len(urls) = 0
  THEN [threw |-> FALSE, raw |-> <<>>, gscUsed |-> FALSE, urlsChecked |-> 0,
        tokens |-> toks, ran |-> {}, failed |-> {}]
  ELSE [threw |-> FALSE,
        raw |-> (IF "structured_data" \in checks THEN validateStructuredData(w.sd) ELSE <<>>)
             \o (IF "indexing" \in checks THEN validateIndexing(w.idx).issues ELSE <<>>)
             \o perfIssues
             \o (IF "mobile" \in checks THEN validateMobile(w.mob) ELSE <<>>),
        gscUsed |-> FALSE, urlsChecked |-> 1, tokens |-> toks,
        ran |-> checks, failed |-> LocalFailed(checks, w)]

\* { ...issue, id: generateIssueId() } for each issue; ids[k] is the k-th draw
AssignIds(raw, ids) == [k \in 1..Len(raw) |-> [raw[k] EXCEPT !.id = ids[k]]]

\* allIssues.map(issue => issueToRecord(issue, siteId))
IssueRecords(allIssues, siteId) ==
  [k \in 1..Len(allIssues) |-> issueToRecord(allIssues[k], siteId)]

SummaryMobileByType(allIssues) ==
  [total_issues |-> Len(allIssues),
   errors |-> CountField(allIssues, "severity", "error"),
   warnings |-> CountField(allIssues, "severity", "warning"),
   by_category |-> [c \in IssueCategory |->
                      IF c = "mobile" THEN CountField(allIssues, "type", "no_viewport")
                      ELSE CountField(allIssues, "category", c)]]
Summary(allIssues) ==
  [total_issues |-> Len(allIssues),
   errors |-> CountField(allIssues, "severity", "error"),
   warnings |-> CountField(allIssues, "severity", "warning"),
   by_category |-> [c \in IssueCategory |-> CountField(allIssues, "category", c)]]

(***************************************************************************)
(* State                                                                   *)
(***************************************************************************)
VARIABLES
  issues,     \* ISSUES_TABLE: the set of stored issue records
  tokens,     \* TOKENS_TABLE: the Google token record of each site, or NoToken
  sites,      \* SITES_TABLE: the site record of each site
  now,        \* Date.now(), in minutes
  resp,       \* the response to the last request, with what the run did
  patched,    \* keys of the stored issues a PATCH moved away from open
  scanOrder,  \* the order in which a Scan reads the partitions of ISSUES_TABLE
  idxIn,      \* the web an indexing validation runs against
  idxOut,     \* what that run did, NotRun before it ran
  callIn,     \* the argument a validator or mapper is called with on its own
  callOut,    \* what that call returned, NotCalled before it returned
  procs,      \* the requests in flight: where each is and what it has read
  stateTokens \* TOKENS_TABLE: the stored OAuth state tokens (items STATE#...)

vars == <<issues, tokens, sites, now, resp, patched, scanOrder, idxIn, idxOut, callIn, callOut, procs, stateTokens>>

NotRun == [issues |-> <<>>, checks |-> {"pending"}, robotsFetched |-> FALSE,
           finalStatus |-> -1]

NoResp == [op |-> "none"]

NotCalled == [fn |-> "none"]
NoProcs == <<>>

Day == 1440
Week == 10080
Year == 525600

\* the next_check of a site checked or registered at time at
NextCheck(schedule, at) ==
  CASE schedule = "weekly" -> at + Week
    [] schedule = "manual" -> at + Year
    [] OTHER -> at + Day

\* a site as POST /sites stores it at time at
RegisteredSite(siteId, schedule, at) ==
  [site_id |-> siteId, check_schedule |-> schedule, last_check |-> NoTime,
   next_check |-> NextCheck(schedule, at), open_issues |-> 0]

\* the web of a site that answers 200 and redirects nowhere
PlainWeb ==
  [n |-> 0, firstRel |-> FALSE, rawIsHref |-> TRUE, end |-> "status", code |-> 200,
   loopTo |-> 0, canonical |-> "same", metaNoindex |-> FALSE,
   headerNoindex |-> FALSE, isRoot |-> FALSE, robots |-> RobotsFile("allows")]

\* a.com was connected to Search Console, b.com was not; both sites were
\* registered a day ago, a.com for daily and b.com for manual checks
StoreInit ==
  /\ now = Day
  /\ sites = [s \in Sites |->
                RegisteredSite(s, IF s = "a.com" THEN "daily" ELSE "manual", 0)]
  /\ scanOrder \in {<<"a.com", "b.com">>, <<"b.com", "a.com">>}
  /\ idxIn = PlainWeb
  /\ idxOut = NotRun
  /\ callIn = NotCalled
  /\ callOut = NotCalled
  /\ procs = NoProcs
  /\ stateTokens = {}

(***************************************************************************)
(* Specification of the indexing validator over every modelled web         *)
(***************************************************************************)
InitIndexing ==
  /\ idxIn \in IdxWorlds
  /\ idxOut = NotRun
  /\ callIn = NotCalled
  /\ callOut = NotCalled
  /\ procs = NoProcs
  /\ stateTokens = {}
  /\ issues = {}
  /\ tokens = [s \in Sites |-> NoToken]
  /\ sites = [s \in Sites |-> RegisteredSite(s, "manual", 0)]
  /\ now = Day
  /\ resp = NoResp
  /\ patched = {}
  /\ scanOrder = <<"a.com", "b.com">>

RunIndexing ==
  /\ idxOut = NotRun
  /\ idxOut' = validateIndexing(idxIn)
  /\ UNCHANGED <<issues, tokens, sites, now, resp, patched, scanOrder, idxIn, callIn,
               callOut, procs, stateTokens>>

NextIndexing == RunIndexing

SpecIndexing == InitIndexing /\ [][NextIndexing]_vars

(***************************************************************************)
(* The requests                                                            *)
(***************************************************************************)
\* the worlds a request can meet: only the calls the handler makes for this
\* request are varied, the others stay at the first world of the profile
WorldsFor(request, toks, P) ==
  LET checks == ChecksOf(request)
      gscPath == /\ request.use_gsc # "false"
                 /\ toks[extractSiteId(request.site_url)] # NoToken
  IN [gsc : IF gscPath THEN P.gsc ELSE {P.rest.gsc},
      sd : IF ~gscPath /\ "structured_data" \in checks THEN P.sd ELSE {P.rest.sd},
      idx : IF ~gscPath /\ "indexing" \in checks THEN P.idx ELSE {P.rest.idx},
      perf : IF "performance" \in checks THEN P.perf ELSE {P.rest.perf},
      mob : IF ~gscPath /\ "mobile" \in checks THEN P.mob ELSE {P.rest.mob}]

ValidateResponse(status, code, request, run, allIssues, existing) ==
  [op |-> "validate", status |-> status, code |-> code,
   accepted |-> ValidationError(request) = "",
   site |-> extractSiteId(request.site_url), checks |-> ChecksOf(request),
   use_gsc |-> request.use_gsc, request |-> request,
   issues |-> allIssues, summary |-> Summary(allIssues),
   gsc_used |-> run.gscUsed, urls_checked |-> run.urlsChecked,
   raw |-> run.raw, ran |-> run.ran, failed |-> run.failed,
   reused |-> {allIssues[k].id : k \in 1..Len(allIssues)} \cap existing]

NoRun == [threw |-> FALSE, raw |-> <<>>, gscUsed |-> FALSE, urlsChecked |-> 0,
          ran |-> {}, failed |-> {}]

KeysOf(recs) == {<<recs[k].site_id, recs[k].issue_id>> : k \in 1..Len(recs)}

\* POST /validate with a request of P.requests in a world of the profile P
Validate(P) ==
  \E request \in P.requests :
    IF request.body = "null"
    THEN \* JSON.parse gives null and reading request.site_url throws
         /\ resp' = ValidateResponse(500, "INTERNAL_ERROR", request, NoRun, <<>>, {})
         /\ UNCHANGED <<issues, tokens, sites, now, patched, scanOrder, idxIn, idxOut,
                        callIn, callOut, procs, stateTokens>>
    ELSE IF ValidationError(request) # ""
    THEN /\ resp' = ValidateResponse(400, "VALIDATION_ERROR", request, NoRun, <<>>, {})
         /\ UNCHANGED <<issues, tokens, sites, now, patched, scanOrder, idxIn, idxOut, callIn, callOut, procs, stateTokens>>
    ELSE \E w \in WorldsFor(request, tokens, P) :
      LET run == ValidateRun(request, w, tokens, now)
          existing == {r.issue_id : r \in issues}
      IN IF run.threw
         THEN /\ resp' = ValidateResponse(500, "INTERNAL_ERROR", request, run, <<>>,
                                          existing)
              /\ tokens' = run.tokens
              /\ UNCHANGED <<issues, sites, now, patched, scanOrder, idxIn, idxOut, callIn, callOut, procs, stateTokens>>
         ELSE \E ids \in [1..Len(run.raw) -> IssueIds] :
           LET allIssues == AssignIds(run.raw, ids)
               issueRecords == IssueRecords(allIssues, extractSiteId(request.site_url))
           IN /\ issues' = putIssues(issues, issueRecords)
              /\ patched' = patched \ KeysOf(issueRecords)
              /\ tokens' = run.tokens
              /\ resp' = ValidateResponse(200, "completed", request, run, allIssues,
                                          existing)
              /\ UNCHANGED <<sites, now, scanOrder, idxIn, idxOut, callIn, callOut, procs, stateTokens>>

\* the 400 of PATCH /issues/{issue_id}, or ""; issue_id NoId, status "" stand
\* for a missing path parameter and a missing status
UpdateError(request) ==
  IF request.issue_id = NoId THEN "issue_id is required"
  ELSE IF request.body = "none" THEN "Request body is required"
  ELSE IF request.body = "badjson" THEN "Invalid JSON in request body"
  ELSE IF request.status = "" THEN "status is required"
  ELSE IF request.status \notin VALID_STATUSES THEN "Invalid status"
  ELSE ""

UpdateResponse(status, code, request, table) ==
  [op |-> "patch", status |-> status, code |-> code, id |-> request.issue_id,
   newStatus |-> request.status, body |-> request.body,
   existed |-> \E r \in table : r.issue_id = request.issue_id,
   countBefore |-> Cardinality(table),
   repeat |-> /\ resp.op = "patch"
              /\ resp.id = request.issue_id
              /\ resp.newStatus = request.status
              /\ resp.status # 400]

\* PATCH /issues/{issue_id}
handleUpdateIssue(requests) ==
  \E request \in requests :
    LET existingIssue == findIssueById(issues, scanOrder, request.issue_id) IN
    IF UpdateError(request) # ""
    THEN /\ resp' = UpdateResponse(400, "VALIDATION_ERROR", request, issues)
         /\ UNCHANGED <<issues, tokens, sites, now, patched, scanOrder, idxIn, idxOut, callIn, callOut, procs, stateTokens>>
    ELSE IF existingIssue = NoRecord
    THEN /\ resp' = UpdateResponse(404, "NOT_FOUND", request, issues)
         /\ UNCHANGED <<issues, tokens, sites, now, patched, scanOrder, idxIn, idxOut, callIn, callOut, procs, stateTokens>>
    ELSE /\ issues' = updateIssueStatus(issues, existingIssue.site_id, request.issue_id,
                                        request.status, now)
         /\ patched' = IF request.status = "open" THEN patched
                       ELSE patched \cup {<<existingIssue.site_id, request.issue_id>>}
         /\ resp' = UpdateResponse(200, "updated", request, issues)
         /\ UNCHANGED <<tokens, sites, now, scanOrder, idxIn, idxOut, callIn, callOut, procs, stateTokens>>

NoLimit == -1

\* the 400 of GET /sites/{site_id}/issues, or ""; site_id "", status "none",
\* limit NoLimit stand for absent parameters
GetError(query) ==
  IF query.site_id = "" THEN "site_id is required"
  ELSE IF query.status # "none" /\ query.status \notin VALID_STATUSES THEN "Invalid status"
  ELSE IF query.limit # NoLimit /\ (query.limit < 1 \/ query.limit > MaxLimit)
  THEN "limit must be between 1 and 500"
  ELSE ""

\* issues.map(({ site_id, issue_id, ...rest }) => ({ ...rest, id: issue_id }))
IssueOfRecord(r) ==
  [id |-> r.issue_id, category |-> r.category, type |-> r.type,
   severity |-> r.severity, auto_fixable |-> r.auto_fixable,
   details |-> r.details, status |-> r.status, updated_at |-> r.updated_at]

\* GET /sites/{site_id}/issues (requests without cursor)
handleGetIssues(queries) ==
  \E query \in queries :
    /\ UNCHANGED <<issues, tokens, sites, now, patched, scanOrder, idxIn, idxOut, callIn, callOut, procs, stateTokens>>
    /\ IF GetError(query) # ""
       THEN resp' = [op |-> "get", status |-> 400, code |-> "VALIDATION_ERROR",
                     query |-> query, issues |-> {}, returned |-> 0]
       ELSE \E page \in QueryPages(issues, query.site_id, query.status,
                         IF query.limit = NoLimit THEN DefaultLimit ELSE query.limit) :
              resp' = [op |-> "get", status |-> 200, code |-> "ok", query |-> query,
                       issues |-> {IssueOfRecord(r) : r \in FilterPage(page, query.category)},
                       returned |-> Cardinality(FilterPage(page, query.category))]

\* validateSite: the three validators run on the site's URL, their issues are
\* counted and dropped, and the site record gets its check times
validateSiteAlwaysDaily(site, w, at) ==
  LET allIssues == validateStructuredData(w.sd) \o validateIndexing(w.idx).issues
                     \o validateMobile(w.mob)
  IN [site EXCEPT !.last_check = at,
                  !.next_check = at + Day,
                  !.open_issues = Len(allIssues)]
validateSite(site, w, at) ==
  LET allIssues == validateStructuredData(w.sd) \o validateIndexing(w.idx).issues
                     \o validateMobile(w.mob)
  IN [site EXCEPT !.last_check = at,
                  !.next_check = IF site.check_schedule = "weekly" THEN at + Week
                                 ELSE at + Day,
                  !.open_issues = Len(allIssues)]

SiteIsDueWhateverNextCheck(site, at) == site.check_schedule # "manual"
SiteIsDue(site, at) ==
  /\ site.check_schedule # "manual"
  /\ (site.next_check = NoTime \/ at >= site.next_check)

\* the scheduled trigger: every due site is validated in a world of P
Scheduled(P) ==
  \E ws \in [{s \in Sites : SiteIsDue(sites[s], now)} ->
               [sd : P.sd, idx : P.idx, mob : P.mob]] :
    /\ sites' = [s \in Sites |->
                   IF s \in DOMAIN ws THEN validateSite(sites[s], ws[s], now) ELSE sites[s]]
    /\ resp' = [op |-> "scheduled", validated |-> DOMAIN ws]
    /\ UNCHANGED <<issues, tokens, now, patched, scanOrder, idxIn, idxOut, callIn, callOut, procs, stateTokens>>

(***************************************************************************)
(* The worlds and requests the handlers are run against                    *)
(***************************************************************************)
SdPage(fetch, blocks) == [fetch |-> fetch, blocks |-> blocks]
PerfWorld(apiKey, fetch, lcp, inp, cls) ==
  [apiKey |-> apiKey, fetch |-> fetch, lcp |-> lcp, inp |-> inp, cls |-> cls]
MobWorld(fetch, viewport, wide, smallFont, smallTap) ==
  [fetch |-> fetch, viewport |-> viewport, wide |-> wide, smallFont |-> smallFont,
   styles |-> IF smallTap THEN <<(<<20, 30>>)>> ELSE <<>>]
IndexPart(verdict, coverage, googleCanonical, userCanonical) ==
  [present |-> TRUE, verdict |-> verdict, coverage |-> coverage,
   googleCanonical |-> googleCanonical, userCanonical |-> userCanonical]
IssuesPart(verdict, partIssues) ==
  [present |-> TRUE, verdict |-> verdict, issues |-> partIssues]
GscWorld(refresh, inspect, result) ==
  [refresh |-> refresh, inspect |-> inspect, result |-> result]

\* an inspection result without any part; one with a noindex coverage
\* failure, a mobile error and a rich-results warning; one that passes with
\* a canonical Google did not accept
EmptyResult == [index |-> NoPart, mobile |-> NoPart, rich |-> NoPart]
FailingResult ==
  [index |-> IndexPart("FAIL", {"noindex"}, "u", "u"),
   mobile |-> IssuesPart("FAIL", <<[issueType |-> "USE_READABLE_FONT_SIZES",
                                    severity |-> "ERROR"]>>),
   rich |-> IssuesPart("PARTIAL", <<[missing |-> FALSE, invalid |-> FALSE,
                                     severity |-> "WARNING"]>>)]
CanonicalResult ==
  [index |-> IndexPart("PASS", {}, "g", "u"), mobile |-> NoPart, rich |-> NoPart]
NoindexResult ==
  [index |-> IndexPart("FAIL", {"noindex"}, "u", "u"), mobile |-> NoPart,
   rich |-> NoPart]

\* a Product with every required and recommended field, and one without name
CompleteProduct ==
  JsonLd("Product", {"name", "image", "description", "brand", "sku", "review",
                     "aggregateRating", "offers"}, {}, {})
ProductWithoutName ==
  JsonLd("Product", {"image", "description", "brand", "sku", "review",
                     "aggregateRating", "offers"}, {}, {})

SdPages ==
  {SdPage("throw", <<>>), SdPage("notok", <<>>), SdPage("ok", <<>>),
   SdPage("ok", <<ObjectBlock(ProductWithoutName)>>)}
\* webs of IdxWorlds: a page that answers 200, one that cannot be fetched,
\* one behind two redirects and a 404 behind two redirects
HandlerWebs ==
  {PlainWeb, [PlainWeb EXCEPT !.end = "fail"], [PlainWeb EXCEPT !.n = 2],
   [PlainWeb EXCEPT !.n = 2, !.code = 404]}
PerfWorlds ==
  {PerfWorld(FALSE, "ok", 0, 0, 0), PerfWorld(TRUE, "throw", 0, 0, 0),
   PerfWorld(TRUE, "ok", 4100, 0, 0)}
MobWorlds ==
  {MobWorld("throw", "ok", FALSE, FALSE, FALSE),
   MobWorld("ok", "none", FALSE, FALSE, FALSE), MobWorld("ok", "ok", FALSE, TRUE, FALSE)}
GscWorlds ==
  {GscWorld(r, i, EmptyResult) : r \in RefreshAnswers, i \in InspectKinds}
    \cup {GscWorld(r, "result", res) : r \in RefreshAnswers,
                                       res \in {FailingResult, CanonicalResult}}

\* the worlds of the calls a request does not make
RestWorld ==
  [gsc |-> GscWorld([ok |-> FALSE, access_token |-> "none", expires_in |-> 0],
                    "noresult", EmptyResult),
   sd |-> SdPage("ok", <<ObjectBlock(CompleteProduct)>>),
   idx |-> PlainWeb,
   perf |-> PerfWorld(FALSE, "ok", 0, 0, 0),
   mob |-> MobWorld("ok", "ok", FALSE, FALSE, FALSE)]

ValidateRequest(body, siteUrl, checks, maxUrls, useGsc) ==
  [body |-> body, site_url |-> siteUrl, checks |-> checks, max_urls |-> maxUrls,
   use_gsc |-> useGsc]

NoChecks == [given |-> FALSE, names |-> {}]
Checks(names) == [given |-> TRUE, names |-> names]
CheckInputs ==
  {NoChecks, Checks({}), Checks({"mobile"}), Checks({"performance"}),
   Checks({"structured_data", "indexing"}), Checks(DEFAULT_CHECKS)}

\* requests of every kind the handler tells apart
AllRequests ==
  {ValidateRequest("json", u, c, 0, g) :
     u \in {"https://a.com/", "http://b.com/"},
     c \in CheckInputs, g \in {"absent", "false"}}
    \cup {ValidateRequest("json", "https://a.com/", Checks({"structured_data", "indexing"}),
                          0, "true")}
    \cup {ValidateRequest("json", "https://www.a.com/", Checks({"mobile"}), m, "absent") :
            m \in {1, 600}}
    \cup {ValidateRequest(b, "https://a.com/", NoChecks, 0, "absent") :
            b \in {"none", "badjson"}}
    \cup {ValidateRequest("json", u, NoChecks, 0, "absent") :
            u \in {"", "not a url", "ftp://a.com/"}}
    \cup {ValidateRequest("json", "https://a.com/", Checks({"mobile", "seo"}), 0, "absent")}

FullProfile ==
  [requests |-> AllRequests, gsc |-> GscWorlds, sd |-> SdPages, idx |-> HandlerWebs,
   perf |-> PerfWorlds, mob |-> MobWorlds, rest |-> RestWorld]

\* the token records a connected site can have at time at: fresh, one that
\* expires within the buffer and can be refreshed, and an expired one without
\* refresh token
TokenStates(site, at) ==
  {NoToken,
   TokenRecord(site, "at1", "rt", at + 60, 0),
   TokenRecord(site, "at1", "rt", at + 3, 0),
   TokenRecord(site, "at1", "none", at - 1, 0)}

StoredIssue(site, id, status) ==
  [issueToRecord([Issue("mobile", "no_viewport", "error", TRUE, NoDetails)
                    EXCEPT !.id = id], site)
     EXCEPT !.status = status]

(***************************************************************************)
(* Specification of one POST /validate: any request, in any world, against *)
(* a store that holds no issue, an open one or a fixed one                 *)
(***************************************************************************)
InitValidate ==
  /\ StoreInit
  /\ \E t \in {{}, {StoredIssue("a.com", 1, "open")}, {StoredIssue("b.com", 1, "fixed")}} :
       /\ issues = t
       /\ patched = {<<r.site_id, r.issue_id>> : r \in {q \in t : q.status # "open"}}
  /\ tokens \in [Sites -> UNION {TokenStates(s, now) : s \in Sites}]
  /\ \A s \in Sites : tokens[s] # NoToken => tokens[s].site_id = s
  /\ tokens["b.com"] = NoToken
  /\ resp = NoResp

ValidateOnce ==
  /\ resp = NoResp
  /\ Validate(FullProfile)

NextValidate == ValidateOnce

SpecValidate == InitValidate /\ [][NextValidate]_vars

(***************************************************************************)
(* Specification of the service: validations, status updates, listings and *)
(* scheduled runs in any order, starting from an empty issues table        *)
(***************************************************************************)
\* most issue records the table holds in this specification
MaxStored == 2

\* the indexing check of either site: a.com is inspected through Search
\* Console, which reports a noindex page or answers with an error; b.com is
\* validated locally and answers 200 or 404
LifeProfile ==
  [requests |-> {ValidateRequest("json", u, Checks({"indexing"}), 0, "absent") :
                   u \in {"https://a.com/", "http://b.com/"}},
   gsc |-> {GscWorld([ok |-> FALSE, access_token |-> "none", expires_in |-> 0], i,
                     NoindexResult) : i \in {"notok", "result"}},
   sd |-> {SdPage("ok", <<ObjectBlock(CompleteProduct)>>)},
   idx |-> {PlainWeb, [PlainWeb EXCEPT !.code = 404]},
   perf |-> {PerfWorld(FALSE, "ok", 0, 0, 0)},
   mob |-> {MobWorld("ok", "ok", FALSE, FALSE, FALSE)},
   rest |-> RestWorld]

UpdateRequest(issueId, body, status) ==
  [issue_id |-> issueId, body |-> body, status |-> status]

UpdateRequests ==
  {UpdateRequest(i, "json", st) : i \in IssueIds, st \in VALID_STATUSES \cup {"done"}}
    \cup {UpdateRequest(NoId, "json", "fixed"), UpdateRequest(1, "none", ""),
          UpdateRequest(1, "badjson", ""), UpdateRequest(1, "json", "")}

IssuesQuery(siteId, status, category, limit) ==
  [site_id |-> siteId, status |-> status, category |-> category, limit |-> limit]

IssuesQueries ==
  {IssuesQuery(s, "open", "none", l) : s \in Sites, l \in {NoLimit, 1}}
    \cup {IssuesQuery("a.com", "none", "none", 1),
          IssuesQuery("a.com", "fixed", "none", NoLimit),
          IssuesQuery("b.com", "open", "mobile", NoLimit)}
    \cup {IssuesQuery("", "open", "none", NoLimit),
          IssuesQuery("a.com", "done", "none", NoLimit),
          IssuesQuery("a.com", "open", "none", 0),
          IssuesQuery("a.com", "open", "none", MaxLimit + 1)}

Init ==
  /\ StoreInit
  /\ issues = {}
  /\ patched = {}
  /\ tokens = [s \in Sites |->
                 IF s = "a.com" THEN TokenRecord(s, "at1", "rt", now + 60, 0) ELSE NoToken]
  /\ resp = NoResp

PostValidate ==
  /\ Validate(LifeProfile)
  /\ Cardinality(issues') <= MaxStored

PatchIssue == handleUpdateIssue(UpdateRequests)

GetIssues == handleGetIssues(IssuesQueries)

ScheduledRun == Scheduled(LifeProfile)

Next == PostValidate \/ PatchIssue \/ GetIssues \/ ScheduledRun

Spec == Init /\ [][Next]_vars

(***************************************************************************)
(* Claims about POST /validate (checked under SpecValidate)                *)
(***************************************************************************)
ValidateAccepted == resp.op = "validate" /\ resp.accepted
ValidateCompleted == resp.op = "validate" /\ resp.status = 200

CountCategory(s, c) == CountField(s, "category", c)

\* C1: for every accepted POST /validate request, a rejected network call
\* made for a check leaves that check without issues and the request still
\* completes with 200 'completed', never with 500 INTERNAL_ERROR.
C1_NetworkFailureStaysLocal ==
  ValidateAccepted =>
    /\ resp.status = 200
    /\ resp.code = "completed"
    /\ \A c \in resp.failed : CountCategory(resp.issues, c) = 0

\* C2: for every accepted POST /validate request that completes, a source
\* was run for every check of its checks list (the local validator of that
\* category or a Search Console result mapped to it), also when a Google
\* token is stored and the inspection gives no result, and every issue the
\* sources gave is in the response.
C2_EverySelectedCheckRuns ==
  (ValidateAccepted /\ resp.status = 200) =>
    /\ resp.checks \subseteq resp.ran
    /\ Len(resp.issues) = Len(resp.raw)

\* C6: the validators and the mapper emit id '', and the assembly gives every
\* issue a non-empty identifier that differs from that of every other issue
\* of the run and of every issue stored before, all other fields unchanged.
C6_FreshIdentifiers ==
  ValidateCompleted =>
    /\ Len(resp.issues) = Len(resp.raw)
    /\ \A k \in 1..Len(resp.raw) :
         /\ resp.raw[k].id = NoId
         /\ resp.issues[k].id # NoId
         /\ [resp.issues[k] EXCEPT !.id = NoId] = resp.raw[k]
    /\ \A j, k \in 1..Len(resp.issues) : j # k => resp.issues[j].id # resp.issues[k].id
    /\ resp.reused = {}

\* C7: in every POST /validate response total_issues is the number of
\* returned issues, errors + warnings = total_issues, by_category has exactly
\* the four category keys, each with the count of that category (0 when
\* there is none), and the four counts sum to total_issues.
C7_SummaryCounts ==
  ValidateCompleted =>
    /\ resp.summary.total_issues = Len(resp.issues)
    /\ resp.summary.errors + resp.summary.warnings = resp.summary.total_issues
    /\ DOMAIN resp.summary.by_category =
         {"structured_data", "indexing", "performance", "mobile"}
    /\ \A c \in DOMAIN resp.summary.by_category :
         resp.summary.by_category[c] = CountCategory(resp.issues, c)
    /\ resp.summary.by_category["structured_data"] + resp.summary.by_category["indexing"]
         + resp.summary.by_category["performance"] + resp.summary.by_category["mobile"]
         = resp.summary.total_issues

\* a completed run with an error, two warnings and a category without issue
C7_Witness ==
  /\ ValidateCompleted
  /\ resp.summary.total_issues >= 3
  /\ resp.summary.errors >= 1
  /\ resp.summary.warnings >= 2
  /\ resp.summary.by_category["performance"] = 0
  /\ resp.summary.by_category["mobile"] >= 1
  /\ resp.summary.by_category["structured_data"] >= 1

(***************************************************************************)
(* Claims about the stored issues (checked under Spec)                     *)
(***************************************************************************)
OpenListing ==
  /\ resp.op = "get"
  /\ resp.status = 200
  /\ resp.query.status = "open"
  /\ resp.query.category = "none"

SiteRecords(siteId) == {r \in issues : r.site_id = siteId}

\* C3 as stated: GET /sites/{site_id}/issues with status=open (and no limit)
\* returns exactly the stored issues of the site that no PATCH has moved to
\* another status since they were created.
C3_OpenListingIsNeverPatched ==
  (OpenListing /\ resp.query.limit = NoLimit) =>
    resp.issues = {IssueOfRecord(r) :
                     r \in {q \in SiteRecords(resp.query.site_id) :
                              <<q.site_id, q.issue_id>> \notin patched}}

\* C3 amended: GET /sites/{site_id}/issues with status=open returns stored
\* issues of the site whose status is open now, whatever PATCHes they had
\* before: all of them when they are at most limit (default 100), else
\* limit of them; no issue whose status is fixing, fixed or wontfix.
C3_OpenListingIsCurrentlyOpen ==
  OpenListing =>
    LET open == {IssueOfRecord(r) :
                   r \in {q \in SiteRecords(resp.query.site_id) : q.status = "open"}}
        limit == IF resp.query.limit = NoLimit THEN DefaultLimit ELSE resp.query.limit
    IN /\ resp.issues \subseteq open
       /\ Cardinality(resp.issues) =
            IF Cardinality(open) < limit THEN Cardinality(open) ELSE limit
       /\ resp.returned = Cardinality(resp.issues)

\* an open listing that returns an issue once PATCHed away from open and
\* leaves out a fixed issue of the site
C3_Witness ==
  /\ OpenListing
  /\ \E r \in SiteRecords(resp.query.site_id) :
       /\ <<r.site_id, r.issue_id>> \in patched
       /\ IssueOfRecord(r) \in resp.issues
  /\ \E r \in SiteRecords(resp.query.site_id) :
       /\ r.status = "fixed"
       /\ IssueOfRecord(r) \notin resp.issues

\* C4: PATCH /issues/{id} with a valid status s on an existing issue, once or
\* repeated, leaves the issue stored with status s and the number of stored
\* records as it was.
C4_PatchIsIdempotent ==
  (resp.op = "patch" /\ resp.status # 400 /\ resp.existed) =>
    /\ resp.status = 200
    /\ \E r \in issues : r.issue_id = resp.id /\ r.status = resp.newStatus
    /\ Cardinality(issues) = resp.countBefore

\* C5: every stored issue has one of the four statuses, an issue is stored
\* with status open, and a stored issue changes only by a PATCH of its id,
\* which sets its status: no validation, requested or scheduled, modifies it.
C5_StatusOnlySetByPatch ==
  /\ [](\A r \in issues : r.status \in {"open", "fixing", "fixed", "wontfix"})
  /\ [][/\ \A r \in issues' :
             (\A q \in issues : ~SameKey(q, r)) => r.status = "open"
        /\ \A q \in issues :
             \/ q \in issues'
             \/ /\ resp'.op = "patch"
                /\ resp'.status = 200
                /\ resp'.id = q.issue_id
                /\ [q EXCEPT !.status = resp'.newStatus, !.updated_at = now] \in issues']_vars

(***************************************************************************)
(* Claims about the indexing validator (checked under SpecIndexing)        *)
(***************************************************************************)
IdxRan == idxOut # NotRun

RedirectTypes == {"redirect_chain", "redirect_loop"}

\* the redirect issues a run returned
RedirectIssues == SelectSeq(idxOut.issues, LAMBDA i : i.type \in RedirectTypes)

\* C8: a chain of n pairwise-distinct redirect hops (n up to the cap of 10)
\* that ends at a non-redirect response yields exactly one redirect_chain
\* issue (warning, auto_fixable, details.hops = n) when n > 1, and no
\* redirect issue when n = 1.
C8_RedirectChainReported ==
  (IdxRan /\ idxIn.end = "status" /\ idxIn.n >= 1 /\ idxIn.n <= maxHops) =>
    IF idxIn.n > 1
    THEN RedirectIssues = <<RedirectChainIssue(idxIn.n)>>
    ELSE RedirectIssues = <<>>

\* C9: when the walked chain revisits a URL already seen (the revisiting hop
\* is within the cap of 10), the validator returns exactly one redirect_loop
\* issue (error, auto_fixable, with loop URL and hop count) and no
\* redirect_chain issue; never both.
C9_RedirectLoopReported ==
  /\ (IdxRan /\ idxIn.end = "loop" /\ idxIn.n + 1 <= maxHops) =>
       /\ CountType(idxOut.issues, "redirect_loop") = 1
       /\ CountType(idxOut.issues, "redirect_chain") = 0
       /\ \A k \in 1..Len(idxOut.issues) :
            idxOut.issues[k].type = "redirect_loop" =>
              /\ idxOut.issues[k].severity = "error"
              /\ idxOut.issues[k].auto_fixable
              /\ DOMAIN idxOut.issues[k].details = {"loop_url", "hops"}
  /\ ~(RedirectTypes \subseteq TypesOf(idxOut.issues))

ContentTypes == {"duplicate_without_canonical", "conflicting_canonical",
                 "noindex_tag", "blocked_by_robots"}

\* C10: a final 404 yields exactly one not_found_404 (error, not
\* auto_fixable), a final status >= 500 exactly one server_error_5xx (error,
\* not auto_fixable), any other non-2xx no final-response issue; in all three
\* cases no canonical, noindex or robots.txt check runs, no such issue is
\* returned and robots.txt is not fetched.
C10_TerminalStatusShortCircuits ==
  (IdxRan /\ idxIn.end \in {"status", "noloc"}) =>
    LET st == FetchFollow(idxIn).status
        final == SelectSeq(idxOut.issues,
                           LAMBDA i : i.type \in {"not_found_404", "server_error_5xx"})
    IN (~(st >= 200 /\ st <= 299)) =>
         /\ st = 404 => final = <<Issue("indexing", "not_found_404", "error", FALSE,
                                        [status_code |-> 404])>>
         /\ st >= 500 => final = <<Issue("indexing", "server_error_5xx", "error", FALSE,
                                         [status_code |-> st])>>
         /\ (st # 404 /\ st < 500) => final = <<>>
         /\ idxOut.checks = {}
         /\ ~idxOut.robotsFetched
         /\ TypesOf(idxOut.issues) \cap ContentTypes = {}

C10_Witness ==
  /\ IdxRan /\ idxIn.end = "status" /\ idxIn.code = 404
  /\ idxIn.canonical = "none" /\ idxIn.metaNoindex
  /\ idxIn.isRoot /\ idxIn.robots = RobotsFile("blocks") /\ idxIn.n = 2
  /\ CountType(idxOut.issues, "not_found_404") = 1

(***************************************************************************)
(* Calls of one validator or mapper on its own: the store stays as it is   *)
(***************************************************************************)
IdleStore ==
  /\ issues = {}
  /\ tokens = [s \in Sites |-> NoToken]
  /\ sites = [s \in Sites |-> RegisteredSite(s, "manual", 0)]
  /\ now = Day
  /\ resp = NoResp
  /\ patched = {}
  /\ scanOrder = <<"a.com", "b.com">>
  /\ idxIn = PlainWeb
  /\ idxOut = NotRun

Call(fn, arg) == [fn |-> fn, arg |-> arg]
Returned(fn, callIssues) == [fn |-> fn, issues |-> callIssues]
Called(fn) == callIn.fn = fn /\ callOut.fn = fn

(***************************************************************************)
(* Specification of the structured data validator over pages of up to      *)
(* MaxBlocks script blocks                                                 *)
(***************************************************************************)
\* the object with field f removed, set to null or set to ''
Without(jsonLd, f, how) ==
  [jsonLd EXCEPT !.fields =
     IF how = "absent" THEN [g \in DOMAIN @ \ {f} |-> @[g]]
     ELSE [g \in DOMAIN @ |-> IF g = f THEN how ELSE @[g]]]
LackKinds == {"absent", "null", "empty"}

CompleteOrganization == JsonLd("Organization", {"name", "url"}, {}, {})
UntypedObject == JsonLd("Unknown", {"name"}, {}, {})

\* objects that lack exactly one required field of their type, in each of
\* the three ways, and objects that lack none
SdObjects ==
  {CompleteProduct, CompleteOrganization, UntypedObject}
  \cup {Without(CompleteProduct, "name", how) : how \in LackKinds}
  \cup {Without(CompleteOrganization, "name", how) : how \in LackKinds}
  \cup {Without(CompleteOrganization, "url", "absent")}

SdBlocks ==
  {ScriptBlock("invalid", <<>>), ScriptBlock("null", <<>>),
   ScriptBlock("array", <<>>), ScriptBlock("graph", <<>>),
   ScriptBlock("array", <<ProductWithoutName, CompleteOrganization>>),
   ScriptBlock("graph", <<Without(CompleteOrganization, "name", "null")>>)}
  \cup {ObjectBlock(o) : o \in SdObjects}

SdInputs ==
  {SdPage(f, b) : f \in FetchKinds,
                  b \in UNION {[1..n -> SdBlocks] : n \in 0..MaxBlocks}}

InitStructuredData ==
  /\ IdleStore
  /\ callIn \in {Call("validateStructuredData", page) : page \in SdInputs}
  /\ callOut = NotCalled
  /\ procs = NoProcs
  /\ stateTokens = {}

RunStructuredData ==
  /\ callIn.fn = "validateStructuredData"
  /\ callOut = NotCalled
  /\ callOut' = Returned("validateStructuredData", validateStructuredData(callIn.arg))
  /\ UNCHANGED <<issues, tokens, sites, now, resp, patched, scanOrder, idxIn, idxOut,
                 callIn, procs, stateTokens>>

NextStructuredData == RunStructuredData

SpecStructuredData == InitStructuredData /\ [][NextStructuredData]_vars

(***************************************************************************)
(* Claims about the structured data validator (checked under               *)
(* SpecStructuredData)                                                     *)
(***************************************************************************)
SdRan == Called("validateStructuredData") /\ callIn.arg.fetch = "ok"

HoldsNothing(block) == block.parse \in {"array", "graph"} /\ block.items = <<>>

IsObjectBlock(block) == block.parse = "object"
\* the required fields of its type that an object lacks
LackedFields(jsonLd) ==
  {REQUIRED_FIELDS(jsonLd.type)[k] : k \in
     {j \in 1..Len(REQUIRED_FIELDS(jsonLd.type)) :
        LET f == REQUIRED_FIELDS(jsonLd.type)[j] IN
        \/ f \notin DOMAIN jsonLd.fields
        \/ jsonLd.fields[f] \in {"null", "empty"}}}
RequiredIssues == SelectSeq(callOut.issues, LAMBDA i : i.type = "missing_required_field")

\* C12: for a fetched page of N script blocks, each one well-formed object
\* that lacks just the required field f of its type (absent, null or ''),
\* the validator gives exactly N missing_required_field issues, the k-th
\* for the k-th block, each an auto-fixable error naming f.
C12_OneRequiredIssuePerBlock ==
  \A f \in {"name", "url", "image"} :
    (/\ SdRan
     /\ \A k \in 1..Len(callIn.arg.blocks) :
          /\ IsObjectBlock(callIn.arg.blocks[k])
          /\ LackedFields(callIn.arg.blocks[k].items[1]) = {f})
    => /\ Len(RequiredIssues) = Len(callIn.arg.blocks)
       /\ \A k \in 1..Len(RequiredIssues) :
            /\ RequiredIssues[k].severity = "error"
            /\ RequiredIssues[k].auto_fixable
            /\ RequiredIssues[k].details.field = f
            /\ RequiredIssues[k].details.schema_type =
                 callIn.arg.blocks[k].items[1].type

\* two blocks whose objects lack name, one by null and one by '', gave two
\* issues
C12_Witness ==
  /\ SdRan
  /\ Len(callIn.arg.blocks) = 2
  /\ callIn.arg.blocks[1] = ObjectBlock(Without(CompleteProduct, "name", "empty"))
  /\ callIn.arg.blocks[2] = ObjectBlock(Without(CompleteOrganization, "name", "null"))
  /\ Len(RequiredIssues) = 2

(***************************************************************************)
(* Specification of the performance validator over metric values at and    *)
(* around each threshold                                                   *)
(***************************************************************************)
LcpValues == {NoAudit, 0, LcpGood, LcpGood + 10, LcpNeedsImprovement,
              LcpNeedsImprovement + 10}
InpValues == {NoAudit, 0, InpGood, InpGood + 1, InpNeedsImprovement,
              InpNeedsImprovement + 1}
ClsValues == {NoAudit, 0, ClsGood, ClsGood + 1, ClsNeedsImprovement,
              ClsNeedsImprovement + 1}

PerfInputs ==
  {PerfWorld(k, f, l, i, c) : k \in BOOLEAN, f \in {"ok", "throw"},
                              l \in LcpValues, i \in InpValues, c \in ClsValues}

InitPerformance ==
  /\ IdleStore
  /\ callIn \in {Call("validatePerformance", pw) : pw \in PerfInputs}
  /\ callOut = NotCalled
  /\ procs = NoProcs
  /\ stateTokens = {}

RunPerformance ==
  /\ callIn.fn = "validatePerformance"
  /\ callOut = NotCalled
  /\ callOut' = Returned("validatePerformance", validatePerformance(callIn.arg))
  /\ UNCHANGED <<issues, tokens, sites, now, resp, patched, scanOrder, idxIn, idxOut,
                 callIn, procs, stateTokens>>

NextPerformance == RunPerformance

SpecPerformance == InitPerformance /\ [][NextPerformance]_vars

(***************************************************************************)
(* Claims about the performance validator (checked under SpecPerformance)  *)
(***************************************************************************)
\* the metrics were measured: an API key is configured and PageSpeed answered
PerfMeasured ==
  Called("validatePerformance") /\ callIn.arg.apiKey /\ callIn.arg.fetch = "ok"

\* what the claim says of one metric with the given value
MetricAsClaimed(name, value, good, bad) ==
  LET poor == CountType(callOut.issues, "poor_" \o name)
      needs == CountType(callOut.issues, "needs_improvement_" \o name) IN
  IF value = NoAudit THEN poor = 0 /\ needs = 0
  ELSE IF value <= good THEN poor = 0 /\ needs = 0
  ELSE IF value <= bad THEN poor = 0 /\ needs = 1
  ELSE poor = 1 /\ needs = 0

\* C13: for each of LCP, INP (proxy) and CLS the validator gives no issue
\* for a value up to good, exactly one needs_improvement_* warning above
\* good and up to bad, exactly one poor_* error above bad, never both, and
\* every performance issue has auto_fixable false.
C13_ThresholdBands ==
  /\ PerfMeasured =>
       /\ MetricAsClaimed("lcp", callIn.arg.lcp, LcpGood, LcpNeedsImprovement)
       /\ MetricAsClaimed("inp", callIn.arg.inp, InpGood, InpNeedsImprovement)
       /\ MetricAsClaimed("cls", callIn.arg.cls, ClsGood, ClsNeedsImprovement)
  /\ Called("validatePerformance") =>
       \A k \in 1..Len(callOut.issues) :
         /\ ~callOut.issues[k].auto_fixable
         /\ callOut.issues[k].type \in {"poor_lcp", "poor_inp", "poor_cls"}
              <=> callOut.issues[k].severity = "error"
         /\ callOut.issues[k].type \in
              {"needs_improvement_lcp", "needs_improvement_inp", "needs_improvement_cls"}
              <=> callOut.issues[k].severity = "warning"

\* LCP 2.51 s, INP 501 ms and CLS 0.10 gave a warning and an error
C13_Witness ==
  /\ PerfMeasured
  /\ callIn.arg.lcp = LcpGood + 10
  /\ callIn.arg.inp = InpNeedsImprovement + 1
  /\ callIn.arg.cls = ClsGood
  /\ TypesOf(callOut.issues) = {"needs_improvement_lcp", "poor_inp"}
  /\ Len(callOut.issues) = 2

(***************************************************************************)
(* Specification of POST /validate with checks ["mobile"] for a site whose *)
(* page has no viewport meta tag and matches no other mobile heuristic     *)
(***************************************************************************)
NoViewportPage == MobWorld("ok", "none", FALSE, FALSE, FALSE)

MobileRequests ==
  {ValidateRequest("json", u, Checks({"mobile"}), 0, g) :
     u \in {"https://a.com/", "http://b.com/"}, g \in {"absent", "true", "false"}}

MobileProfile ==
  [requests |-> MobileRequests, gsc |-> GscWorlds, sd |-> {RestWorld.sd},
   idx |-> {RestWorld.idx}, perf |-> {RestWorld.perf}, mob |-> {NoViewportPage},
   rest |-> [RestWorld EXCEPT !.mob = NoViewportPage]]

ValidateMobileOnce ==
  /\ resp = NoResp
  /\ Validate(MobileProfile)

NextMobileExample == ValidateMobileOnce

SpecMobileExample == InitValidate /\ [][NextMobileExample]_vars

\* the response the example describes
OneNoViewportIssue ==
  /\ resp.status = 200
  /\ resp.summary.total_issues = 1
  /\ resp.summary.by_category.mobile = 1
  /\ Len(resp.issues) = 1
  /\ resp.issues[1].type = "no_viewport"
  /\ resp.issues[1].severity = "error"
  /\ resp.issues[1].auto_fixable

\* C14 as stated: POST /validate with checks ["mobile"] against a page
\* without viewport meta tag returns one issue, no_viewport (error,
\* auto-fixable), total_issues 1 and by_category.mobile 1, whatever is
\* stored for the site.
C14_NoViewportExample ==
  resp.op = "validate" => OneNoViewportIssue

\* C14 amended: the same response is returned whenever the local validators
\* serve the request, that is when the request has use_gsc false or no
\* Google token is stored for the site.
C14_NoViewportExampleLocalPath ==
  (/\ resp.op = "validate"
   /\ resp.use_gsc = "false" \/ tokens[resp.site] = NoToken)
  => OneNoViewportIssue

\* a.com has a Google token and the request says use_gsc false; b.com has
\* none and the request leaves use_gsc out
C14_Witness ==
  /\ resp.op = "validate"
  /\ OneNoViewportIssue
  /\ \/ resp.site = "a.com" /\ tokens["a.com"] # NoToken /\ resp.use_gsc = "false"
     \/ resp.site = "b.com" /\ resp.use_gsc = "absent"

(***************************************************************************)
(* Specification of the Search Console mapper over index-status results    *)
(* and rich-results items                                                  *)
(***************************************************************************)
IndexParts ==
  {IndexPart(v, c, g, u) : v \in Verdicts, c \in SUBSET CoverageKeywords,
                           g \in {"none", "g", "u"}, u \in {"none", "u"}}

\* a rich-results issue: whether its lower-cased message contains "missing",
\* whether it contains "invalid", and its severity
RichIssues ==
  [missing : BOOLEAN, invalid : BOOLEAN,
   severity : {"ERROR", "WARNING", "SEVERITY_UNSPECIFIED"}]
RichParts ==
  {IssuesPart(v, i) : v \in {"PASS", "PARTIAL", "FAIL"},
                      i \in UNION {[1..n -> RichIssues] : n \in 1..MaxRichIssues}}

MapperInputs ==
  {[index |-> part, mobile |-> NoPart, rich |-> NoPart] : part \in IndexParts}
    \cup {[index |-> NoPart, mobile |-> NoPart, rich |-> part] : part \in RichParts}
    \cup {EmptyResult, FailingResult}

InitMapper ==
  /\ IdleStore
  /\ callIn \in {Call("mapInspectionResultToIssues", r) : r \in MapperInputs}
  /\ callOut = NotCalled
  /\ procs = NoProcs
  /\ stateTokens = {}

RunMapper ==
  /\ callIn.fn = "mapInspectionResultToIssues"
  /\ callOut = NotCalled
  /\ callOut' = Returned("mapInspectionResultToIssues",
                         mapInspectionResultToIssues(callIn.arg))
  /\ UNCHANGED <<issues, tokens, sites, now, resp, patched, scanOrder, idxIn, idxOut,
                 callIn, procs, stateTokens>>

NextMapper == RunMapper

SpecMapper == InitMapper /\ [][NextMapper]_vars

(***************************************************************************)
(* Claims about the Search Console mapper (checked under SpecMapper)       *)
(***************************************************************************)
IndexMapped == Called("mapInspectionResultToIssues") /\ callIn.arg.index.present
RichMapped == Called("mapInspectionResultToIssues") /\ callIn.arg.rich.present

CoverageTypes ==
  {"noindex_tag", "blocked_by_robots", "not_found_404", "server_error_5xx",
   "redirect_chain", "crawled_not_indexed"}
CoverageIssues == SelectSeq(callOut.issues, LAMBDA i : i.type \in CoverageTypes)
CanonicalTypes == {"conflicting_canonical", "duplicate_without_canonical"}
CanonicalIssues == SelectSeq(callOut.issues, LAMBDA i : i.type \in CanonicalTypes)

\* the type the first keyword of coverageState stands for, "" without keyword
FirstKeywordType(coverage) ==
  IF "noindex" \in coverage THEN "noindex_tag"
  ELSE IF "blocked" \in coverage THEN "blocked_by_robots"
  ELSE IF "not found" \in coverage THEN "not_found_404"
  ELSE IF "server error" \in coverage THEN "server_error_5xx"
  ELSE IF "redirect" \in coverage THEN "redirect_chain"
  ELSE ""

\* C15 as stated: the mapper gives at most one coverage issue; when a
\* keyword occurs in coverageState its type is that of the first keyword in
\* the order noindex, blocked, not found/404, server error/5xx, redirect,
\* whatever the verdict; without keyword it gives crawled_not_indexed if
\* and only if the verdict is FAIL.
C15_KeywordDecidesCoverageIssue ==
  IndexMapped =>
    LET index == callIn.arg.index IN
    /\ Len(CoverageIssues) <= 1
    /\ FirstKeywordType(index.coverage) # "" =>
         /\ Len(CoverageIssues) = 1
         /\ CoverageIssues[1].type = FirstKeywordType(index.coverage)
    /\ FirstKeywordType(index.coverage) = "" =>
         (Len(CoverageIssues) = 1 <=> index.verdict = "FAIL")

\* C15 amended: the mapper gives a coverage issue if and only if the
\* verdict is FAIL, and then exactly one: of the type of the first keyword
\* that occurs in coverageState, crawled_not_indexed when none occurs.
C15_CoverageIssueOnlyOnFail ==
  IndexMapped =>
    LET index == callIn.arg.index IN
    IF index.verdict = "FAIL"
    THEN /\ Len(CoverageIssues) = 1
         /\ CoverageIssues[1].type =
              IF FirstKeywordType(index.coverage) # ""
              THEN FirstKeywordType(index.coverage) ELSE "crawled_not_indexed"
    ELSE Len(CoverageIssues) = 0

\* a failing result whose coverageState names both a block and a redirect
C15_Witness ==
  /\ IndexMapped
  /\ callIn.arg.index.verdict = "FAIL"
  /\ callIn.arg.index.coverage = {"blocked", "redirect"}
  /\ Len(CoverageIssues) = 1
  /\ CoverageIssues[1].type = "blocked_by_robots"

RichOut == SelectSeq(callOut.issues, LAMBDA i : i.category = "structured_data")
RichClassified ==
  /\ RichMapped
  /\ callIn.arg.rich.verdict # "PASS"
  /\ Len(RichOut) = Len(callIn.arg.rich.issues)

\* C17 as stated: each rich-results issue is classified by its message
\* alone: missing_required_field when it contains "missing", otherwise
\* invalid_field_value when it contains "invalid", otherwise
\* missing_recommended_field.
C17_ClassifiedByMessageAlone ==
  (RichMapped /\ callIn.arg.rich.verdict # "PASS") =>
    /\ Len(RichOut) = Len(callIn.arg.rich.issues)
    /\ \A k \in 1..Len(RichOut) :
         RichOut[k].type =
           IF callIn.arg.rich.issues[k].missing THEN "missing_required_field"
           ELSE IF callIn.arg.rich.issues[k].invalid THEN "invalid_field_value"
           ELSE "missing_recommended_field"

\* C17 amended: a message containing "invalid" gives invalid_field_value;
\* otherwise a message without "missing" whose severity is WARNING gives
\* missing_recommended_field; every other issue gives
\* missing_required_field.
C17_ClassifiedByMessageAndSeverity ==
  (RichMapped /\ callIn.arg.rich.verdict # "PASS") =>
    /\ Len(RichOut) = Len(callIn.arg.rich.issues)
    /\ \A k \in 1..Len(RichOut) :
         RichOut[k].type =
           IF callIn.arg.rich.issues[k].invalid THEN "invalid_field_value"
           ELSE IF /\ ~callIn.arg.rich.issues[k].missing
                   /\ callIn.arg.rich.issues[k].severity = "WARNING"
           THEN "missing_recommended_field"
           ELSE "missing_required_field"

\* an error whose message has neither word, then a warning with both words
C17_Witness ==
  /\ RichClassified
  /\ Len(callIn.arg.rich.issues) = 2
  /\ callIn.arg.rich.issues[1] =
       [missing |-> FALSE, invalid |-> FALSE, severity |-> "ERROR"]
  /\ callIn.arg.rich.issues[2] =
       [missing |-> TRUE, invalid |-> TRUE, severity |-> "WARNING"]
  /\ RichOut[1].type = "missing_required_field"
  /\ RichOut[2].type = "invalid_field_value"

(***************************************************************************)
(* Specification of getValidAccessToken over the token records a site can  *)
(* have and the answers Google gives to a refresh                          *)
(***************************************************************************)
\* no record; records that are fresh, within the expiry buffer or expired,
\* with and without refresh token
TokenInputs(site, at) ==
  {NoToken}
    \cup {TokenRecord(site, "at1", r, e, 0) :
            r \in {"rt", "none"},
            e \in {at + 60, at + ExpiryBuffer, at + 3, at - 1}}

InitToken ==
  /\ issues = {}
  /\ tokens \in [Sites -> UNION {TokenInputs(s, Day) : s \in Sites}]
  /\ \A s \in Sites : tokens[s] # NoToken => tokens[s].site_id = s
  /\ sites = [s \in Sites |-> RegisteredSite(s, "manual", 0)]
  /\ now = Day
  /\ resp = NoResp
  /\ patched = {}
  /\ scanOrder = <<"a.com", "b.com">>
  /\ idxIn = PlainWeb
  /\ idxOut = NotRun
  /\ callIn \in {Call("getValidAccessToken", [siteId |-> s, refresh |-> r]) :
                   s \in Sites, r \in RefreshAnswers}
  /\ callOut = NotCalled
  /\ procs = NoProcs
  /\ stateTokens = {}

RunGetValidAccessToken ==
  /\ callIn.fn = "getValidAccessToken"
  /\ callOut = NotCalled
  /\ LET valid == getValidAccessToken(tokens, callIn.arg.siteId, now,
                                      callIn.arg.refresh) IN
       /\ tokens' = valid.tokens
       /\ callOut' = [fn |-> "getValidAccessToken", token |-> valid.token]
  /\ UNCHANGED <<issues, sites, now, resp, patched, scanOrder, idxIn, idxOut, callIn, procs, stateTokens>>

NextToken == RunGetValidAccessToken

SpecToken == InitToken /\ [][NextToken]_vars

(***************************************************************************)
(* Claims about getValidAccessToken (checked under SpecToken)              *)
(***************************************************************************)
\* C18: when getValidAccessToken finds an expired record and the refresh
\* succeeds, the stored record has the new access_token and an expires_at
\* computed from the answer, with refresh_token, site_id, scope and
\* created_at as before, and the new access token is returned; when the
\* refresh fails or the record has no refresh token, the token table is
\* left as it was and null is returned.
C18_RefreshKeepsRecord ==
  [][(callIn.fn = "getValidAccessToken" /\ callOut = NotCalled /\ callOut' # NotCalled) =>
       LET siteId == callIn.arg.siteId
           refresh == callIn.arg.refresh
           old == tokens[siteId]
           new == tokens'[siteId]
       IN (old # NoToken /\ isTokenExpired(old.expires_at, now)) =>
            IF old.refresh_token # "none" /\ refresh.ok
            THEN /\ new.access_token = refresh.access_token
                 /\ new.expires_at = now + refresh.expires_in
                 /\ new.refresh_token = old.refresh_token
                 /\ new.site_id = old.site_id
                 /\ new.scope = old.scope
                 /\ new.created_at = old.created_at
                 /\ \A s \in Sites \ {siteId} : tokens'[s] = tokens[s]
                 /\ callOut'.token = refresh.access_token
            ELSE /\ tokens' = tokens
                 /\ callOut'.token = "none"]_vars

\* an expired record of a.com was refreshed, or an expired record without
\* refresh token gave null
C18_Witness ==
  /\ Called("getValidAccessToken")
  /\ callIn.arg.siteId = "a.com"
  /\ callIn.arg.refresh.ok
  /\ \/ /\ callOut.token = "at2"
        /\ tokens["a.com"].access_token = "at2"
        /\ tokens["a.com"].updated_at = now
        /\ tokens["a.com"].created_at = 0
     \/ /\ callOut.token = "none"
        /\ tokens["a.com"] # NoToken
        /\ tokens["a.com"].refresh_token = "none"

(***************************************************************************)
(* Specification of the schedule of a site: POST /sites, the scheduled     *)
(* trigger and the passing of time                                         *)
(***************************************************************************)
\* check_schedule of a registration request: left out, one of the three
\* schedules, or another string (it is stored as it is)
ScheduleInputs == {"absent", "daily", "weekly", "manual", "hourly"}

RegisterRequest(body, siteUrl, schedule) ==
  [body |-> body, site_url |-> siteUrl, check_schedule |-> schedule]

RegisterRequests ==
  {RegisterRequest("json", "https://a.com/", c) : c \in ScheduleInputs}
    \cup {RegisterRequest("json", "http://b.com/", "weekly"),
          RegisterRequest("none", "https://a.com/", "daily"),
          RegisterRequest("json", "ftp://a.com/", "daily")}

\* the 400 of handleRegisterSite, "" when it accepts the request
RegisterError(request) ==
  IF request.body = "none" THEN "Request body is required"
  ELSE IF request.body = "badjson" THEN "Invalid JSON in request body"
  ELSE IF request.site_url = "" THEN "site_url is required"
  ELSE IF ~HttpUrl(request.site_url) THEN "Invalid site_url format"
  ELSE ""

\* POST /sites
handleRegisterSite(requests) ==
  \E request \in requests :
    IF RegisterError(request) # ""
    THEN /\ resp' = [op |-> "register", status |-> 400, code |-> "VALIDATION_ERROR",
                    site |-> "none"]
         /\ UNCHANGED <<issues, tokens, sites, now, patched, scanOrder, idxIn, idxOut,
                        callIn, callOut, procs, stateTokens>>
    ELSE LET siteId == extractSiteId(request.site_url)
             checkSchedule == IF request.check_schedule = "absent" THEN "daily"
                              ELSE request.check_schedule
         IN /\ sites' = [sites EXCEPT ![siteId] =
                           RegisteredSite(siteId, checkSchedule, now)]
            /\ resp' = [op |-> "register", status |-> 201, code |-> "registered",
                       site |-> siteId]
            /\ UNCHANGED <<issues, tokens, now, patched, scanOrder, idxIn, idxOut,
                           callIn, callOut, procs, stateTokens>>

ScheduleProfile ==
  [sd |-> {RestWorld.sd}, idx |-> {PlainWeb}, mob |-> {RestWorld.mob, NoViewportPage}]

InitSchedule ==
  /\ StoreInit
  /\ issues = {}
  /\ tokens = [s \in Sites |-> NoToken]
  /\ resp = NoResp
  /\ patched = {}

RegisterSite == handleRegisterSite(RegisterRequests)

ScheduledTrigger == Scheduled(ScheduleProfile)

\* a day or a week passes
Tick ==
  \E d \in {Day, Week} :
    /\ now + d <= MaxDays * Day
    /\ now' = now + d
    /\ UNCHANGED <<issues, tokens, sites, resp, patched, scanOrder, idxIn, idxOut,
                   callIn, callOut, procs, stateTokens>>

NextSchedule == RegisterSite \/ ScheduledTrigger \/ Tick

SpecSchedule == InitSchedule /\ [][NextSchedule]_vars

(***************************************************************************)
(* Claims about the schedule (checked under SpecSchedule)                  *)
(***************************************************************************)
\* the next_check the claim gives for an operation at time at
ClaimedNextCheck(schedule, at, nextCheck) ==
  CASE schedule = "daily" -> nextCheck = at + Day
    [] schedule = "weekly" -> nextCheck = at + Week
    [] schedule = "manual" -> nextCheck >= at + Year
    [] OTHER -> TRUE

\* the step registered the site / the step was a scheduled run of the site
RegisteredNow(s) ==
  now' = now /\ resp'.op = "register" /\ resp'.status = 201 /\ resp'.site = s
ValidatedNow(s) ==
  now' = now /\ resp'.op = "scheduled" /\ sites'[s].last_check # sites[s].last_check

\* C19: a registration and every scheduled run of a site set its next_check
\* to the time of the operation + 24 h for daily, + 7 days for weekly and
\* to a far-future time for manual, and the scheduler never validates a
\* site whose schedule is manual.
C19_NextCheckFollowsSchedule ==
  [][\A s \in Sites :
       /\ (sites'[s] # sites[s]) => (RegisteredNow(s) \/ ValidatedNow(s))
       /\ (RegisteredNow(s) \/ ValidatedNow(s)) =>
            /\ ClaimedNextCheck(sites'[s].check_schedule, now, sites'[s].next_check)
            /\ sites'[s].check_schedule \in {"daily", "weekly", "manual", "hourly"}
       /\ ValidatedNow(s) =>
            /\ sites[s].check_schedule # "manual"
            /\ sites'[s].check_schedule = sites[s].check_schedule
            /\ sites'[s].last_check = now
       /\ (resp'.op = "scheduled" /\ now' = now) =>
            \A v \in resp'.validated : sites[v].check_schedule # "manual"]_vars

\* a.com was registered for weekly checks and validated by the scheduler a
\* week later, while b.com is still the manual site never validated
C19_Witness ==
  /\ sites["a.com"].check_schedule = "weekly"
  /\ sites["a.com"].last_check = now
  /\ sites["a.com"].next_check = now + Week
  /\ sites["b.com"].check_schedule = "manual"
  /\ sites["b.com"].last_check = NoTime
  /\ sites["b.com"].next_check = Year
  /\ resp.op = "scheduled"

(***************************************************************************)
(* Specification of POST /validate over bodies of every kind: no body,     *)
(* text that is not JSON, the JSON literal null, and objects with and      *)
(* without a usable site_url and checks                                    *)
(***************************************************************************)
BodyRequests ==
  {ValidateRequest(b, "https://a.com/", NoChecks, 0, "absent") :
     b \in {"none", "badjson"}}
    \cup {ValidateRequest("null", "", NoChecks, 0, "absent")}
    \cup {ValidateRequest("json", u, NoChecks, 0, "absent") :
            u \in {"", "not a url", "ftp://a.com/"}}
    \cup {ValidateRequest("json", "https://a.com/", Checks({"mobile", "seo"}), 0, "absent")}
    \cup {ValidateRequest("json", u, c, 0, "absent") :
            u \in {"https://a.com/", "http://b.com/"},
            c \in {NoChecks, Checks({}), Checks({"mobile"})}}

BodyProfile ==
  [requests |-> BodyRequests, gsc |-> GscWorlds, sd |-> {RestWorld.sd},
   idx |-> {RestWorld.idx}, perf |-> {RestWorld.perf},
   mob |-> {RestWorld.mob, NoViewportPage}, rest |-> RestWorld]

ValidateBodyOnce ==
  /\ resp = NoResp
  /\ Validate(BodyProfile)

NextBody == ValidateBodyOnce

SpecBody == InitValidate /\ [][NextBody]_vars

\* the input is structurally invalid: no body, a body that is not JSON, no
\* site_url in it, a site_url that is no http/https URL, or a check outside
\* the four categories
StructurallyInvalid(request) ==
  \/ request.body \in {"none", "badjson"}
  \/ request.site_url = ""
  \/ ~HttpUrl(request.site_url)
  \/ request.checks.given /\ ~(request.checks.names \subseteq IssueCategory)

\* C20: POST /validate answers 400 VALIDATION_ERROR exactly when the input
\* is structurally invalid and gives no other 4xx, and a rejected request
\* runs no validator and leaves the token and issue tables as they are.
C20_RejectsExactlyInvalidInput ==
  /\ [](resp.op = "validate" =>
         /\ (resp.status = 400 /\ resp.code = "VALIDATION_ERROR")
              <=> StructurallyInvalid(resp.request)
         /\ resp.status \in 400..499 => resp.status = 400
         /\ resp.status = 400 => resp.ran = {} /\ resp.issues = <<>>)
  /\ [][(resp'.op = "validate" /\ resp'.status = 400) =>
          (issues' = issues /\ tokens' = tokens)]_vars

(***************************************************************************)
(* Further claims about the issue store handlers (checked under Spec)      *)
(***************************************************************************)
\* the PATCH carries no usable status: no body, a body that is not JSON, no
\* status in it or one outside the four statuses
PatchInvalid ==
  \/ resp.body \in {"none", "badjson"}
  \/ resp.newStatus \notin {"open", "fixing", "fixed", "wontfix"}

\* C21: PATCH /issues/{issue_id} answers 400 VALIDATION_ERROR for a missing
\* or invalid status or a body that is not JSON, 404 NOT_FOUND for an
\* issue_id that is not stored, in both cases leaving the stored issues as
\* they are, and for a stored issue_id with a valid status it answers 200
\* and the stored status is the requested one.
C21_PatchOutcomes ==
  /\ [](resp.op = "patch" /\ resp.id # NoId =>
         /\ PatchInvalid => resp.status = 400 /\ resp.code = "VALIDATION_ERROR"
         /\ (~PatchInvalid /\ ~resp.existed) =>
              resp.status = 404 /\ resp.code = "NOT_FOUND"
         /\ (~PatchInvalid /\ resp.existed) =>
              /\ resp.status = 200
              /\ \A r \in issues : r.issue_id = resp.id => r.status = resp.newStatus)
  /\ [][(resp'.op = "patch" /\ resp'.status \in {400, 404}) => issues' = issues]_vars

(***************************************************************************)
(* OAuth handler (handlers/auth.ts).  A callback is a sequence of awaited  *)
(* calls, and callbacks of different requests interleave between them:     *)
(* getStateToken, then deleteStateToken and the expiry test, then          *)
(* exchangeCodeForTokens and putGoogleToken.                               *)
(***************************************************************************)
Pids == 1..MaxProcs
OAuthStates == {"s1", "s2"}
StateLifetime == 10

\* the item putStateToken stores for a state
StateItem(state, siteId, at) ==
  [state |-> state, site_id |-> siteId, created_at |-> at,
   expires_at |-> at + StateLifetime]

\* getStateToken: the stored data of the state, NoRecord without item
getStateToken(table, state) ==
  IF \E i \in table : i.state = state
  THEN CHOOSE i \in table : i.state = state
  ELSE NoRecord

deleteStateToken(table, state) == {i \in table : i.state # state}

\* a request that has not arrived, and a callback that has: the state it
\* presents, where it is, what getStateToken gave it, and its response
Callback(state, pc, data, status, code, stored, at) ==
  [pc |-> pc, state |-> state, data |-> data, status |-> status, code |-> code,
   stored |-> stored, at |-> at]
Idle == Callback("", "idle", NoRecord, 0, "", FALSE, NoTime)

\* the states generateState has returned so far are those of procs.issued;
\* 32 random bytes are not returned twice
handleInitiate ==
  \E state \in OAuthStates \ procs.issued, siteId \in Sites :
    /\ stateTokens' = stateTokens \cup {StateItem(state, siteId, now)}
    /\ procs' = [procs EXCEPT !.issued = @ \cup {state}]
    /\ resp' = [op |-> "initiate", status |-> 302, code |-> "redirect"]
    /\ UNCHANGED <<issues, tokens, sites, now, patched, scanOrder, idxIn, idxOut,
                   callIn, callOut>>

\* handleCallback up to getStateToken; params "error", "nocode" and "nostate"
\* stand for an error parameter and a missing code or state
CallbackArrives(p) ==
  \E params \in {"error", "nocode", "nostate", "ok"}, state \in OAuthStates \cup {"forged"} :
    /\ procs.calls[p].pc = "idle"
    /\ LET data == getStateToken(stateTokens, state)
           answer == IF params = "error" THEN Callback(state, "done", NoRecord, 400,
                                                      "OAUTH_ERROR", FALSE, now)
                     ELSE IF params # "ok" THEN Callback(state, "done", NoRecord, 400,
                                                        "VALIDATION_ERROR", FALSE, now)
                     ELSE IF data = NoRecord THEN Callback(state, "done", NoRecord, 400,
                                                          "INVALID_STATE", FALSE, now)
                     ELSE Callback(state, "found", data, 0, "", FALSE, now)
       IN /\ procs' = [procs EXCEPT !.calls[p] = answer]
          /\ resp' = IF answer.pc = "done"
                     THEN [op |-> "callback", status |-> answer.status,
                           code |-> answer.code]
                     ELSE resp
    /\ UNCHANGED <<issues, tokens, sites, now, patched, scanOrder, idxIn, idxOut,
                   callIn, callOut, stateTokens>>

\* deleteStateToken and the expiry test
CallbackDeletes(p) ==
  /\ procs.calls[p].pc = "found"
  /\ stateTokens' = deleteStateToken(stateTokens, procs.calls[p].state)
  /\ IF procs.calls[p].data.expires_at < now
     THEN /\ procs' = [procs EXCEPT !.calls[p] =
                         [@ EXCEPT !.pc = "done", !.status = 400,
                                   !.code = "EXPIRED_STATE"]]
          /\ resp' = [op |-> "callback", status |-> 400, code |-> "EXPIRED_STATE"]
     ELSE /\ procs' = [procs EXCEPT !.calls[p] = [@ EXCEPT !.pc = "deleted"]]
          /\ resp' = resp
  /\ UNCHANGED <<issues, tokens, sites, now, patched, scanOrder, idxIn, idxOut,
                 callIn, callOut>>

\* exchangeCodeForTokens, which Google answers or refuses, and putGoogleToken
CallbackStores(p) ==
  \E exchange \in {"throw", "tokens"}, refresh \in {"rt", "none"} :
    /\ procs.calls[p].pc = "deleted"
    /\ IF exchange = "throw"
       THEN /\ procs' = [procs EXCEPT !.calls[p] =
                           [@ EXCEPT !.pc = "done", !.status = 500,
                                     !.code = "INTERNAL_ERROR"]]
            /\ resp' = [op |-> "callback", status |-> 500, code |-> "INTERNAL_ERROR"]
            /\ tokens' = tokens
       ELSE /\ procs' = [procs EXCEPT !.calls[p] =
                           [@ EXCEPT !.pc = "done", !.status = 200,
                                     !.code = "connected", !.stored = TRUE]]
            /\ resp' = [op |-> "callback", status |-> 200, code |-> "connected"]
            /\ tokens' = [tokens EXCEPT ![procs.calls[p].data.site_id] =
                            TokenRecord(procs.calls[p].data.site_id, "at1", refresh,
                                        now + 60, now)]
    /\ UNCHANGED <<issues, sites, now, patched, scanOrder, idxIn, idxOut, callIn,
                   callOut, stateTokens>>

\* time passes: up to the expiry of a state created now, or just beyond it
Wait ==
  \E d \in {StateLifetime, StateLifetime + 1} :
  /\ now < Day + MaxWaits * StateLifetime
  /\ now' = now + d
  /\ UNCHANGED <<issues, tokens, sites, resp, patched, scanOrder, idxIn, idxOut,
                 callIn, callOut, procs, stateTokens>>

InitAuth ==
  /\ IdleStore
  /\ callIn = NotCalled
  /\ callOut = NotCalled
  /\ procs = [calls |-> [p \in Pids |-> Idle], issued |-> {}]
  /\ stateTokens = {}

NextAuth ==
  \/ handleInitiate
  \/ \E p \in Pids : CallbackArrives(p) \/ CallbackDeletes(p) \/ CallbackStores(p)
  \/ Wait

SpecAuth == InitAuth /\ [][NextAuth]_vars

(***************************************************************************)
(* Claims about the OAuth handler (checked under SpecAuth)                 *)
(***************************************************************************)
\* the callbacks that stored credentials after presenting the state
StoredWith(state) ==
  {p \in Pids : procs.calls[p].state = state /\ procs.calls[p].stored}

\* the callbacks that found the state with getStateToken
FoundWith(state) ==
  {p \in Pids : procs.calls[p].state = state /\ procs.calls[p].data # NoRecord}

\* C25: a state token is single-use: whatever the order and interleaving of
\* the callbacks, at most one callback presenting a state stores Google
\* credentials; a callback that arrives with a state another callback has
\* found before is rejected with INVALID_STATE, and a callback with a state
\* that is unknown or expired when it arrives stores nothing.
C25_StateIsSingleUse ==
  /\ [](\A state \in OAuthStates \cup {"forged"} :
          /\ Cardinality(StoredWith(state)) <= 1
          /\ state \notin procs.issued => StoredWith(state) = {}
          /\ \A p \in StoredWith(state) : procs.calls[p].data.expires_at >= procs.calls[p].at)
  /\ [][\A p \in Pids :
          (/\ procs.calls[p].pc = "idle" /\ procs'.calls[p].pc # "idle"
           /\ procs'.calls[p].code \notin {"OAUTH_ERROR", "VALIDATION_ERROR"}
           /\ FoundWith(procs'.calls[p].state) # {})
          => procs'.calls[p].code = "INVALID_STATE"]_vars

(***************************************************************************)
(* The handlers behind the routes: the method and path dispatch of each    *)
(* Lambda handler, and the responses it gives                              *)
(***************************************************************************)
Methods == {"GET", "POST", "PATCH", "DELETE"}

\* issues.ts handler: GET on a /sites/../issues path lists, PATCH on an
\* /issues/ path updates, every other request is answered by the else branch
issuesHandler ==
  \E method \in Methods, path \in {"/sites/a.com/issues", "/issues/1", "/health"} :
    IF method = "GET" /\ path = "/sites/a.com/issues"
    THEN handleGetIssues({q \in IssuesQueries : q.site_id \in {"a.com", ""}})
    ELSE IF method = "PATCH" /\ path \in {"/sites/a.com/issues", "/issues/1"}
    THEN handleUpdateIssue({r \in UpdateRequests : r.issue_id \in {1, NoId}})
    ELSE /\ resp' = [op |-> "issues", status |-> 405, code |-> "VALIDATION_ERROR"]
         /\ UNCHANGED <<issues, tokens, sites, now, patched, scanOrder, idxIn, idxOut,
                        callIn, callOut, procs, stateTokens>>

\* validate.ts sites handler: GET lists the sites, POST registers one
sitesHandler ==
  \E method \in Methods :
    IF method = "GET"
    THEN /\ resp' = [op |-> "sites", status |-> 200, code |-> "ok"]
         /\ UNCHANGED <<issues, tokens, sites, now, patched, scanOrder, idxIn, idxOut,
                        callIn, callOut, procs, stateTokens>>
    ELSE IF method = "POST"
    THEN handleRegisterSite(RegisterRequests)
    ELSE /\ resp' = [op |-> "sites", status |-> 405, code |-> "VALIDATION_ERROR"]
         /\ UNCHANGED <<issues, tokens, sites, now, patched, scanOrder, idxIn, idxOut,
                        callIn, callOut, procs, stateTokens>>

RoutesProfile ==
  [requests |-> {r \in BodyRequests : r.site_url # "http://b.com/"},
   gsc |-> {GscWorld([ok |-> FALSE, access_token |-> "none", expires_in |-> 0], i,
                     EmptyResult) : i \in InspectKinds},
   sd |-> {RestWorld.sd}, idx |-> {RestWorld.idx}, perf |-> {RestWorld.perf},
   mob |-> {RestWorld.mob}, rest |-> RestWorld]

\* gsc-inspect.ts handler; an absent parameter is "", and an absent site_id
\* reads the token record of 'default', which nothing has stored
gscInspectHandler ==
  \E url \in {"", "https://a.com/"}, siteUrl \in {"", "sc-domain:a.com"},
     siteId \in Sites \cup {""}, gw \in RoutesProfile.gsc :
    LET tokenRecord == IF siteId = "" THEN NoToken ELSE tokens[siteId]
        result == inspectUrl(tokens, siteId, now, gw)
        answer == IF url = "" \/ siteUrl = "" THEN <<400, "VALIDATION_ERROR">>
                  ELSE IF tokenRecord = NoToken THEN <<401, "NOT_CONNECTED">>
                  ELSE IF result.outcome = "throw" THEN <<500, "INTERNAL_ERROR">>
                  ELSE IF result.outcome = "null" THEN <<500, "API_ERROR">>
                  ELSE <<200, "ok">>
    IN /\ resp' = [op |-> "inspect", status |-> answer[1], code |-> answer[2]]
       /\ tokens' = IF answer[1] \in {400, 401} THEN tokens ELSE result.tokens
       /\ UNCHANGED <<issues, sites, now, patched, scanOrder, idxIn, idxOut,
                      callIn, callOut, procs, stateTokens>>

\* auth handler: GET /auth/google initiates, GET /auth/google/callback is
\* the callback, every other request is not found
authHandler ==
  \E method \in Methods, path \in {"/auth/google", "/auth/google/callback", "/auth"} :
    IF method = "GET" /\ path = "/auth/google" THEN handleInitiate
    ELSE IF method = "GET" /\ path = "/auth/google/callback"
    THEN CallbackArrives(1)
    ELSE /\ resp' = [op |-> "auth", status |-> 404, code |-> "NOT_FOUND"]
         /\ UNCHANGED <<issues, tokens, sites, now, patched, scanOrder, idxIn, idxOut,
                        callIn, callOut, procs, stateTokens>>

\* the callback in flight goes on
authCallbackGoesOn == CallbackDeletes(1) \/ CallbackStores(1)

\* validate.ts handler
validateHandler ==
  /\ Validate(RoutesProfile)
  /\ Cardinality(issues') <= MaxStored

InitRoutes ==
  /\ IdleStore
  /\ callIn = NotCalled
  /\ callOut = NotCalled
  /\ procs = [calls |-> [p \in Pids |-> Idle], issued |-> {}]
  /\ stateTokens = {}

NextRoutes ==
  \/ validateHandler
  \/ sitesHandler
  \/ issuesHandler
  \/ authHandler
  \/ authCallbackGoesOn
  \/ gscInspectHandler

SpecRoutes == InitRoutes /\ [][NextRoutes]_vars

\* C22: every response whose error code is VALIDATION_ERROR has HTTP
\* status 400, whichever handler gave it.
C22_ValidationErrorIs400 ==
  resp # NoResp /\ resp.op # "scheduled" /\ resp.code = "VALIDATION_ERROR" => resp.status = 400

(***************************************************************************)
(* Specification of extractSiteId alone, on URL texts of every shape       *)
(***************************************************************************)
WwwPrefixes == {<<>>, <<"www">>, <<"WWW">>, <<"www", "www">>}
BaseHosts == {<<"a", "com">>, <<"A", "COM">>, <<"b", "com">>}
UrlInputs ==
  {Url(scheme, w \o h, path) :
     scheme \in SpecialSchemes \cup {"git", ""}, w \in WwwPrefixes, h \in BaseHosts,
     path \in {"/", "/path"}}

InitSiteId ==
  /\ IdleStore
  /\ procs = NoProcs
  /\ stateTokens = {}
  /\ callIn \in {Call("extractSiteId", IF u.scheme = "" THEN HostName(u.host) ELSE u) :
                   u \in UrlInputs}
  /\ callOut = NotCalled

\* extractSiteId on the text, and on what it returned
RunExtractSiteId ==
  /\ callIn.fn = "extractSiteId"
  /\ callOut = NotCalled
  /\ callOut' = [fn |-> "extractSiteId", siteId |-> extractSiteIdParsed(callIn.arg),
                 again |-> extractSiteIdParsed(extractSiteIdParsed(callIn.arg))]
  /\ UNCHANGED <<issues, tokens, sites, now, resp, patched, scanOrder, idxIn, idxOut,
                 callIn, procs, stateTokens>>

NextSiteId == RunExtractSiteId

SpecSiteId == InitSiteId /\ [][NextSiteId]_vars

(***************************************************************************)
(* Claims about extractSiteId (checked under SpecSiteId)                   *)
(***************************************************************************)
ValidUrls == {u \in UrlInputs : u.scheme # ""}
LowerHost(host) == [i \in 1..Len(host) |-> toLowerCase(host[i])]
\* the host without one leading www label, whatever its case
Unprefixed(host) ==
  IF Len(host) > 1 /\ toLowerCase(host[1]) = "www" THEN Tail(host) ELSE host
\* u and v differ in nothing but scheme, path, letter case of the host, or a
\* www. prefix one has and the other lacks
DifferSlightly(u, v) ==
  \/ LowerHost(u.host) = LowerHost(v.host)
  \/ LowerHost(Unprefixed(u.host)) = LowerHost(v.host)
  \/ LowerHost(u.host) = LowerHost(Unprefixed(v.host))

\* C23 as stated: for every valid URL the result is the lowercased host
\* name without a leading "www.", any two URLs that differ only in scheme,
\* path, host letter case or a www. prefix get the same site_id, and
\* extractSiteId of the result is the result.
C23_SiteIdOfAnyUrl ==
  Called("extractSiteId") /\ callIn.arg.scheme # "" =>
    /\ callOut.siteId = HostName(LowerHost(Unprefixed(callIn.arg.host)))
    /\ \A v \in ValidUrls :
         DifferSlightly(callIn.arg, v) => extractSiteIdParsed(v) = callOut.siteId
    /\ callOut.again = callOut.siteId

\* C23, amended: for every URL of a scheme whose host the URL parser
\* lowercases (http, https, ftp) the result is the lowercased host name
\* without one leading "www."; two such URLs that differ only in scheme,
\* path or host letter case get the same site_id, and so do a URL and the
\* URL with www. put before a host that does not begin with www. itself;
\* extractSiteId of any result is that result.
C23_SiteIdOfWebUrl ==
  Called("extractSiteId") =>
    /\ callOut.again = callOut.siteId
    /\ callIn.arg.scheme \in SpecialSchemes =>
         /\ callOut.siteId = HostName(LowerHost(Unprefixed(callIn.arg.host)))
         /\ \A v \in ValidUrls :
              (/\ v.scheme \in SpecialSchemes
               /\ \/ LowerHost(v.host) = LowerHost(callIn.arg.host)
                  \/ /\ LowerHost(Unprefixed(v.host)) = LowerHost(callIn.arg.host)
                     /\ toLowerCase(callIn.arg.host[1]) # "www")
              => extractSiteIdParsed(v) = callOut.siteId

C23_Witness ==
  /\ Called("extractSiteId")
  /\ callIn.arg = Url("https", <<"WWW", "A", "COM">>, "/path")
  /\ callOut.siteId = HostName(<<"a", "com">>)
  /\ callOut.again = callOut.siteId

(***************************************************************************)
(* Specification of concurrent getValidAccessToken calls for one site:     *)
(* each call reads the record, asks Google for new tokens and puts the     *)
(* record back, and the calls interleave at every await                    *)
(***************************************************************************)
\* the access token in the record at the start, and the one the refresh
\* call of request p returns
AccessToken(p) == <<"access_token", p>>

\* where a call is, the record getGoogleToken gave it, and the record it
\* built from the answer of its refresh call
TokenCall(pc, tokenRecord, putRecord, token) ==
  [pc |-> pc, tokenRecord |-> tokenRecord, putRecord |-> putRecord, token |-> token]
NoCall == TokenCall("idle", NoToken, NoToken, AccessToken(0))

\* the item getValidAccessToken puts after a refresh
RefreshedRecordWithoutRest(tokenRecord, newTokens, at) ==
  [site_id |-> tokenRecord.site_id, access_token |-> newTokens.access_token,
   refresh_token |-> "none", expires_at |-> at + newTokens.expires_in,
   scope |-> tokenRecord.scope, created_at |-> tokenRecord.created_at,
   updated_at |-> at]
RefreshedRecord(tokenRecord, newTokens, at) ==
  [tokenRecord EXCEPT !.access_token = newTokens.access_token,
                      !.expires_at = at + newTokens.expires_in,
                      !.updated_at = at]

\* getGoogleToken and the tests on the record
TokenRead(p) ==
  /\ procs.calls[p].pc = "idle"
  /\ LET tokenRecord == tokens["a.com"]
         next == IF tokenRecord = NoToken
                 THEN TokenCall("done", tokenRecord, NoToken, AccessToken(0))
                 ELSE IF ~isTokenExpired(tokenRecord.expires_at, now)
                 THEN TokenCall("done", tokenRecord, NoToken, tokenRecord.access_token)
                 ELSE IF tokenRecord.refresh_token = "none"
                 THEN TokenCall("done", tokenRecord, NoToken, AccessToken(0))
                 ELSE TokenCall("refreshing", tokenRecord, NoToken, AccessToken(0))
     IN procs' = [procs EXCEPT !.calls[p] = next]
  /\ UNCHANGED <<issues, tokens, sites, now, resp, patched, scanOrder, idxIn, idxOut,
                 callIn, callOut, stateTokens>>

\* refreshAccessToken answers, or throws and the call returns null
TokenRefreshed(p) ==
  \E ok \in BOOLEAN, expiresIn \in {30, 60} :
    /\ procs.calls[p].pc = "refreshing"
    /\ procs' = [procs EXCEPT !.calls[p] =
                   IF ok
                   THEN [@ EXCEPT !.pc = "putting",
                                  !.putRecord = RefreshedRecord(procs.calls[p].tokenRecord,
                                     [access_token |-> AccessToken(p),
                                      expires_in |-> expiresIn], now)]
                   ELSE [@ EXCEPT !.pc = "done"]]
    /\ UNCHANGED <<issues, tokens, sites, now, resp, patched, scanOrder, idxIn, idxOut,
                   callIn, callOut, stateTokens>>

\* putGoogleToken, and the new access token is returned
TokenPut(p) ==
  /\ procs.calls[p].pc = "putting"
  /\ tokens' = [tokens EXCEPT !["a.com"] = procs.calls[p].putRecord]
  /\ procs' = [procs EXCEPT !.calls[p] =
                 [@ EXCEPT !.pc = "done",
                           !.token = procs.calls[p].putRecord.access_token]]
  /\ UNCHANGED <<issues, sites, now, resp, patched, scanOrder, idxIn, idxOut,
                 callIn, callOut, stateTokens>>

\* time passes between the steps
TokenWait ==
  /\ now < Day + MaxWaits
  /\ now' = now + 1
  /\ UNCHANGED <<issues, tokens, sites, resp, patched, scanOrder, idxIn, idxOut,
                 callIn, callOut, procs, stateTokens>>

\* the record the OAuth callback stored: expired, within the buffer or
\* valid, with or without refresh token
InitRefresh ==
  /\ \E expiresAt \in {Day - 10, Day + ExpiryBuffer, Day + 60}, refresh \in {"rt", "none"} :
       tokens = [s \in Sites |->
                   IF s = "a.com"
                   THEN TokenRecord(s, AccessToken(0), refresh, expiresAt, 0)
                   ELSE NoToken]
  /\ issues = {}
  /\ sites = [s \in Sites |-> RegisteredSite(s, "manual", 0)]
  /\ now = Day
  /\ resp = NoResp
  /\ patched = {}
  /\ scanOrder = <<"a.com", "b.com">>
  /\ idxIn = PlainWeb
  /\ idxOut = NotRun
  /\ callIn = NotCalled
  /\ callOut = NotCalled
  /\ procs = [calls |-> [p \in Pids |-> NoCall]]
  /\ stateTokens = {}

NextRefresh ==
  \/ \E p \in Pids : TokenRead(p) \/ TokenRefreshed(p) \/ TokenPut(p)
  \/ TokenWait

SpecRefresh == InitRefresh /\ [][NextRefresh]_vars

(***************************************************************************)
(* Claims about concurrent refreshes (checked under SpecRefresh)           *)
(***************************************************************************)
\* the calls that have put the record of their refresh
HavePut == {p \in Pids : procs.calls[p].pc = "done" /\ procs.calls[p].putRecord # NoToken}

\* C24: refreshes are not mutually exclusive, and after every interleaving
\* the stored record is whole: once a call has put its record, the stored
\* access_token and expires_at are those of one and the same refresh, and
\* the refresh_token is the one the record had from the start.
C24_StoredRecordIsOneRefresh ==
  /\ [](HavePut # {} =>
          /\ \E p \in HavePut :
               /\ tokens["a.com"].access_token = AccessToken(p)
               /\ tokens["a.com"].expires_at = procs.calls[p].putRecord.expires_at
               /\ tokens["a.com"] = procs.calls[p].putRecord
          /\ tokens["a.com"].refresh_token = "rt")
  /\ [][tokens'["a.com"].refresh_token = tokens["a.com"].refresh_token]_vars

\* two calls read the expired record, each made its own refresh call, and
\* both have put their record
C24_Witness ==
  /\ \A p \in {1, 2} : p \in HavePut /\ procs.calls[p].tokenRecord.access_token = AccessToken(0)
  /\ tokens["a.com"].access_token = AccessToken(1)
  /\ procs.calls[1].putRecord.expires_at # procs.calls[2].putRecord.expires_at

(***************************************************************************)
(* Further claims about the scheduled handler (checked under SpecSchedule) *)
(***************************************************************************)
\* the step is a scheduled trigger that validated site s
TriggerValidated(s) ==
  now' = now /\ resp'.op = "scheduled" /\ sites' # sites /\ s \in resp'.validated

\* C26: a scheduled trigger validates a site only if its check_schedule is
\* not manual and its next_check is absent or not later than the trigger
\* time; the run leaves last_check at the run time and next_check strictly
\* later, so the site is not due again until that next_check has passed.
C26_TriggerValidatesDueSitesOnly ==
  [][\A s \in Sites :
       /\ TriggerValidated(s) =>
            /\ sites[s].check_schedule # "manual"
            /\ sites[s].next_check = NoTime \/ sites[s].next_check <= now
            /\ sites'[s].last_check = now
            /\ sites'[s].next_check > now
            /\ ~SiteIsDue(sites'[s], now)
       /\ (/\ now' = now
           /\ sites'[s].last_check # sites[s].last_check
           /\ sites'[s].last_check # NoTime) => TriggerValidated(s)]_vars

\* a.com was validated by an earlier trigger and is weekly; the trigger of
\* a later day, before its next_check, has left it alone
C26_Witness ==
  /\ resp.op = "scheduled"
  /\ "a.com" \notin resp.validated
  /\ sites["a.com"].check_schedule = "weekly"
  /\ sites["a.com"].last_check # NoTime
  /\ sites["a.com"].last_check < now
  /\ now < sites["a.com"].next_check

(***************************************************************************)
(* Further claims about getValidAccessToken (checked under SpecToken)      *)
(***************************************************************************)
\* C27: when the stored access token expires less than 5 minutes after the
\* current time, or has expired, getValidAccessToken does not return it: it
\* returns the access token of a refresh performed in the call, or null.
C27_NeverReturnsExpiringToken ==
  [][(callIn.fn = "getValidAccessToken" /\ callOut = NotCalled /\ callOut' # NotCalled) =>
       LET old == tokens[callIn.arg.siteId]
           refresh == callIn.arg.refresh
       IN (old # NoToken /\ old.expires_at < now + 5) =>
            /\ callOut'.token # old.access_token
            /\ \/ callOut'.token = "none"
               \/ /\ refresh.ok
                  /\ callOut'.token = refresh.access_token
                  /\ tokens'[callIn.arg.siteId].access_token = refresh.access_token]_vars

\* the stored token of a.com had 3 minutes left and Google refused the
\* refresh: the call returned null; with 5 minutes left it is returned
C27_Witness ==
  /\ Called("getValidAccessToken")
  /\ callIn.arg.siteId = "a.com"
  /\ tokens["a.com"] # NoToken
  /\ tokens["a.com"].refresh_token = "rt"
  /\ tokens["a.com"].expires_at = now + 3
  /\ callOut.token = "none"

(***************************************************************************)
(* Further claims about POST /validate (checked under SpecValidate)        *)
(***************************************************************************)
\* the checks list of the request, the four default checks when omitted
RequestedChecks(request) ==
  IF request.checks.given THEN request.checks.names
  ELSE {"structured_data", "indexing", "performance", "mobile"}

\* C28: every issue POST /validate returns, and every issue record it
\* writes, has a category of the request's checks list (of the four default
\* checks when the list is omitted), on the Search Console path and on the
\* path of the local validators.
C28_IssuesAreOfRequestedChecks ==
  [][(resp = NoResp /\ resp'.op = "validate" /\ resp'.status = 200) =>
       /\ \A k \in 1..Len(resp'.issues) :
            resp'.issues[k].category \in RequestedChecks(resp'.request)
       /\ \A r \in issues' \ issues :
            r.category \in RequestedChecks(resp'.request)]_vars

\* a run through Search Console, and one of the local validators, that
\* returned and stored an issue for a checks list without the other checks
C28_Witness ==
  /\ resp.op = "validate"
  /\ resp.status = 200
  /\ resp.request.checks.given
  /\ resp.request.checks.names \in {{"indexing"}, {"mobile"}}
  /\ Len(resp.issues) > 0
  /\ \E r \in issues : r.category \in resp.request.checks.names /\ r.site_id = resp.site

(***************************************************************************)
(* Specification of the indexing validator on a page that answers at once, *)
(* over the robots.txt texts its site can serve                            *)
(***************************************************************************)
MaxLines == 3
RobotsLines ==
  {"User-agent: *", "User-agent: Googlebot", "User-agent: bingbot", "Disallow: /",
   "disallow: /", "Disallow: /private"}
RobotsInputs ==
  {RobotsTxt("fail", <<>>, FALSE), RobotsTxt("notok", <<>>, FALSE)}
    \cup {RobotsTxt("ok", lines, nl) :
            lines \in UNION {[1..k -> RobotsLines] : k \in 0..MaxLines}, nl \in BOOLEAN}

InitRobots ==
  /\ IdleStore
  /\ callIn = NotCalled
  /\ callOut = NotCalled
  /\ procs = NoProcs
  /\ stateTokens = {}

\* validateIndexing on the page of a site with the given robots.txt
RunRobots ==
  \E isRoot \in BOOLEAN, code \in {200, 404}, robots \in RobotsInputs :
    /\ idxOut = NotRun
    /\ idxIn' = [PlainWeb EXCEPT !.isRoot = isRoot, !.code = code, !.robots = robots]
    /\ idxOut' = validateIndexing(idxIn')
    /\ UNCHANGED <<issues, tokens, sites, now, resp, patched, scanOrder, callIn,
                   callOut, procs, stateTokens>>

NextRobots == RunRobots

SpecRobots == InitRobots /\ [][NextRobots]_vars

(***************************************************************************)
(* Claims about the robots.txt check (checked under SpecRobots)            *)
(***************************************************************************)
\* line i is a Disallow: / line of a section whose User-agent line names *
\* or googlebot
InBlockedSection(lines, i) ==
  /\ IsDisallowAll(lines[i])
  /\ \E j \in 1..(i - 1) :
       /\ AgentOf(lines[j]) \in {"*", "googlebot"}
       /\ \A k \in (j + 1)..(i - 1) : AgentOf(lines[k]) = ""

BlockedByRobots ==
  {k \in 1..Len(idxOut.issues) : idxOut.issues[k].type = "blocked_by_robots"}

\* C29: robots.txt is fetched only for a URL whose path is the site root,
\* and then blocked_by_robots (error, auto_fixable) is emitted if and only
\* if the fetch succeeds and the text has a Disallow: / line in a section
\* whose User-agent is * or googlebot; otherwise the check adds no issue.
C29_BlockedIffDisallowedSection ==
  idxOut # NotRun =>
    /\ idxOut.robotsFetched => idxIn.isRoot
    /\ ~idxOut.robotsFetched => BlockedByRobots = {}
    /\ idxOut.robotsFetched =>
         /\ BlockedByRobots # {} <=>
              /\ idxIn.robots.fetch = "ok"
              /\ \E i \in 1..Len(idxIn.robots.lines) :
                   InBlockedSection(idxIn.robots.lines, i)
         /\ \A k \in BlockedByRobots :
              idxOut.issues[k].severity = "error" /\ idxOut.issues[k].auto_fixable

(***************************************************************************)
(* Specification of the mobile validator over the inline styles of a page  *)
(***************************************************************************)
MaxStyles == 2
MaxDecls == 3
PxValues == {0, 20, 44}
StyleInputs == UNION {[1..n -> PxValues] : n \in 1..MaxDecls}
TapInputs ==
  {[MobWorld("ok", "ok", FALSE, FALSE, FALSE) EXCEPT !.styles = styles] :
     styles \in UNION {[1..n -> StyleInputs] : n \in 0..MaxStyles}}

InitTap ==
  /\ IdleStore
  /\ procs = NoProcs
  /\ stateTokens = {}
  /\ callIn \in {Call("validateMobile", mw) : mw \in TapInputs}
  /\ callOut = NotCalled

RunValidateMobile ==
  /\ callIn.fn = "validateMobile"
  /\ callOut = NotCalled
  /\ callOut' = Returned("validateMobile", validateMobile(callIn.arg))
  /\ UNCHANGED <<issues, tokens, sites, now, resp, patched, scanOrder, idxIn, idxOut,
                 callIn, procs, stateTokens>>

NextTap == RunValidateMobile

SpecTap == InitTap /\ [][NextTap]_vars

(***************************************************************************)
(* Claims about the tap-target scan (checked under SpecTap)                *)
(***************************************************************************)
TapIssues ==
  {k \in 1..Len(callOut.issues) : callOut.issues[k].type = "tap_targets_too_close"}

\* C30 as stated: at most one tap_targets_too_close warning per page, and
\* only when some style attribute carries two width/height declarations
\* that are both below 44px.
C30_TapIssueOnlyWhenBothSmall ==
  Called("validateMobile") =>
    /\ Cardinality(TapIssues) <= 1
    /\ TapIssues # {} =>
         \E k \in 1..Len(callIn.arg.styles) :
           \E i, j \in 1..Len(callIn.arg.styles[k]) :
             i < j /\ callIn.arg.styles[k][i] < 44 /\ callIn.arg.styles[k][j] < 44

\* C30, amended: at most one tap_targets_too_close warning per page, and it
\* is emitted exactly when the last two width/height declarations of some
\* style attribute have a smaller value below 44px and above 0: a style
\* attribute with only one of the two below 44px triggers it as well.
C30_TapIssueWhenSmallerIsSmall ==
  Called("validateMobile") =>
    /\ Cardinality(TapIssues) <= 1
    /\ \A k \in TapIssues : callOut.issues[k].severity = "warning"
    /\ TapIssues # {} <=>
         \E k \in 1..Len(callIn.arg.styles) :
           LET style == callIn.arg.styles[k]
               n == Len(style)
           IN /\ n >= 2
              /\ style[n - 1] > 0 /\ style[n] > 0
              /\ style[n - 1] < 44 \/ style[n] < 44

\* a page whose two style attributes each have one dimension of 20px and
\* one of 44px: one warning
C30_Witness ==
  /\ Called("validateMobile")
  /\ callIn.arg.styles = <<(<<44, 20>>), (<<20, 44>>)>>
  /\ Cardinality(TapIssues) = 1

====
